---- MODULE Spec2Model ----
(***************************************************************************)
(* The driver supervision loop of oze-canopen-viewer (src/src/driver.rs)   *)
(* with the channels that connect it to the GUI (src/src/gui.rs) and to    *)
(* the message sender panel (src/src/message_sender.rs).                   *)
(*                                                                         *)
(* One loop iteration of Driver::run is cut at its await points:           *)
(*   "select"  the tokio::select! of Driver::process is waiting,           *)
(*   "write"   handle_write_command is sending (one step per transmit),    *)
(*   "check"   the race is resolved, the control check comes next,         *)
(*   "lock"    the new Control is adopted, co.connection.lock() is awaited, *)
(*   "publish" process() has returned, run() is about to publish,          *)
(*   "done"    the loop has left through its break,                        *)
(*   "panic"   the task has panicked on an unwrap.                         *)
(* The GUI thread and the bus port run concurrently with the driver task.  *)
(***************************************************************************)
EXTENDS Integers, Sequences, FiniteSets, TLC

VARIABLES
    pc,            \* position of the driver task in Driver::run / process
    control,       \* Driver.control : Control
    state,         \* Driver.state : State (data, info, exit_signal)
    index,         \* Driver.index
    rcv,           \* the local rcv of Driver::process
    wcmd,          \* the WriteCommand being handled (NoCmd when none)
    wtodo,         \* transmit attempts handle_write_command still has to make
    tx,            \* transmit attempts made for wcmd, with their outcome
    ctrl_chan,     \* value held by the watch channel of Control
    ctrl_changed,  \* Driver.receiver.has_changed()
    published,     \* value held by the watch channel of State
    wq,            \* the bounded mpsc queue of WriteCommand
    rx,            \* frames pending in co.rx
    co_connection, \* co.connection (behind its mutex)
    co_info,       \* co.info (behind its mutex), refreshed by the port
    co_lock,       \* holder of the mutex of co.connection between two steps
    nextFrame,     \* serial number of the next frame the bus delivers
    nextCmd,       \* serial number of the next enqueue attempt
    events,        \* events of the environment so far
    \* history of the run, for stating the properties
    steps,         \* what the iteration in progress has done so far
    pubs,          \* publishes made since the last race was resolved
    last_sent,     \* the Control value sent last
    unseen,        \* Control values sent since the driver last observed one
    skipped,       \* commands sent, then overwritten before being observed
    collapsed,     \* the skipped commands at the adoption of this iteration
    ingested,      \* frames appended to the log, in order
    accepted,      \* ids of the enqueue attempts that succeeded, in order
    handled,       \* ids of the commands the driver dequeued, in order
    dropped,       \* ids of the enqueue attempts that failed
    \* the consumer of the published State and the two watch channels
    gui,           \* what Gui keeps of its reads (data, info, exit signal)
    unread,        \* the State channel holds a value the consumer has not read
    state_rx_open, \* the State channel still has a receiver
    ctrl_tx_open,  \* the Control channel still has its sender
    \* the statistics engine and the message sender panel
    bus_stats,     \* BusStats
    clock,         \* milliseconds since BusStats::new (Instant::now())
    calls,           \* history: the on_message and update_load calls made
    form,            \* the text fields of MessageSender
    ret              \* the last value returned by a function of the panels

vars == <<pc, control, state, index, rcv, wcmd, wtodo, tx, ctrl_chan,
          ctrl_changed, published, wq, rx, co_connection, co_info, nextFrame,
          nextCmd, events, steps, pubs, last_sent, unseen, skipped, collapsed,
          ingested, accepted, handled, dropped, gui, unread, state_rx_open,
          ctrl_tx_open, bus_stats, clock, calls, form, ret, co_lock>>

\* what only the driver task writes
driverVars == <<pc, control, state, index, rcv, wcmd, wtodo, tx, published,
                co_connection, steps, pubs, collapsed, ingested, handled>>

----------------------------------------------------------------------------
(* Program constants and the bounds of the model *)

MAX_MESSAGES_IN_STATE == 512

\* entries the GUI keeps of the log
MESSAGES_COUNT == 4096

\* frames the bus delivers in Spec
MaxFrames == 2
\* frames the bus delivers in SpecLog (enough to pass the capacity of the log)
MaxLogFrames == 515
\* frames that can wait in co.rx
MaxPending == 1
\* capacity of the WriteCommand queue
WriteQueueCap == 2
\* enqueue attempts of the producer
MaxWrites == 3
\* Control values sent between two control checks of the driver
MaxCtlBurst == 2
\* refreshes of co.info by the port
MaxInfo == 1
\* events of the environment in one run of Spec, all kinds together
MaxEvents == 4
\* enqueue attempts of the producer in SpecWrite
MaxPanelWrites == 1

\* the fields of the message sender panel that are edited
MaxEdits == 1

\* the characters typed into the data field of the panel
MaxHexLen == 4

\* the steps of the clock and the messages counted while the gaps and the
\* rate window are observed
MaxGapTicks == 3

MaxGapMessages == 3

\* the steps of the clock and the messages counted while the message rate
\* is computed
MaxRateTicks == 7

MaxRateMessages == 6

\* the steps of the clock, the messages counted and the length asked for
\* while the rates per identifier are computed
MaxIdTicks == 2

MaxIdMessages == 3

MaxTop == 2

\* the messages counted while the mean gap is observed
MaxAvgMessages == 6

\* the messages counted while the windows of gaps and of loads fill up
MaxWindowMessages == 1003

ControlCommand == {"Stop", "Kill", "Process"}

Connections == {"can0", "can1"}

Control == [command : ControlCommand, connection : Connections]

----------------------------------------------------------------------------
(* Integers of fixed width *)

RECURSIVE BitOr(_, _)
\* a | b on non-negative integers
BitOr(a, b) ==
    IF a = 0 THEN b
    ELSE IF b = 0 THEN a
    ELSE (IF a % 2 = 1 \/ b % 2 = 1 THEN 1 ELSE 0)
         + 2 * BitOr(a \div 2, b \div 2)

\* a & b on non-negative integers, b = 2^k - 1
BitAndMask(a, mask) == a % (mask + 1)

\* (n << k) as u8
Shl8(n, k) == (n * (2 ^ k)) % 256

\* A u32 is kept as its two 16-bit halves: 0x80000180 does not fit the
\* integers of the model checker.
U32(hi, lo) == [hi |-> hi, lo |-> lo]

\* u32 + u32::from(node_id), wrapping
U32Add(v, n) ==
    [lo |-> (v.lo + n) % 65536,
     hi |-> (v.hi + ((v.lo + n) \div 65536)) % 65536]

\* u32::to_be_bytes
U32BeBytes(v) ==
    <<v.hi \div 256, v.hi % 256, v.lo \div 256, v.lo % 256>>

\* u32::to_le_bytes
U32LeBytes(v) ==
    <<v.lo % 256, v.lo \div 256, v.hi % 256, v.hi \div 256>>

\* u16::to_be_bytes
U16BeBytes(v) == <<v \div 256, v % 256>>

\* u16::to_le_bytes
U16LeBytes(v) == <<v % 256, v \div 256>>

----------------------------------------------------------------------------
(* WriteCommand and the frames its handling hands to the transmitter *)

NoCmd == [id |-> 0, type |-> "None", node_id |-> 0, cob_id |-> 0,
          index |-> 0, subindex |-> 0, nmt |-> "", data |-> <<>>,
          error_code |-> 0, error_register |-> 0]

SendSync == [NoCmd EXCEPT !.type = "SendSync"]

SendNmt(node_id, command) ==
    [NoCmd EXCEPT !.type = "SendNmt", !.node_id = node_id, !.nmt = command]

SendRaw(cob_id, data) ==
    [NoCmd EXCEPT !.type = "SendRaw", !.cob_id = cob_id, !.data = data]

SendPdo(cob_id, data) ==
    [NoCmd EXCEPT !.type = "SendPdo", !.cob_id = cob_id, !.data = data]

SendSdoDownload(node_id, idx, subindex, data) ==
    [NoCmd EXCEPT !.type = "SendSdoDownload", !.node_id = node_id,
                  !.index = idx, !.subindex = subindex, !.data = data]

ConfigureTpdo1Statusword(node_id) ==
    [NoCmd EXCEPT !.type = "ConfigureTpdo1Statusword", !.node_id = node_id]

\* The value MessageSender::show_emcy_ui builds. The WriteCommand enum of
\* the driver has no such variant and handle_write_command no arm for it.
SendEmcy(node_id, error_code, error_register, data) ==
    [NoCmd EXCEPT !.type = "SendEmcy", !.node_id = node_id,
                  !.error_code = error_code,
                  !.error_register = error_register, !.data = data]

\* A transmit attempt: the packet handed to co.tx (or to co.send_sync /
\* co.send_nmt, whose frame the CANopen library builds).
TxPacket(kind, cob_id, data) ==
    [kind |-> kind, cob_id |-> cob_id, data |-> data, nmt |-> ""]

NmtPacket(command, node_id) ==
    [kind |-> "nmt", cob_id |-> 0, data |-> <<node_id>>, nmt |-> command]

SyncPacket == [kind |-> "sync", cob_id |-> 128, data |-> <<>>, nmt |-> ""]

RECURSIVE PadTo8(_)
\* while sdo_data.len() < 8 { sdo_data.push(0) }
PadTo8(bytes) == IF Len(bytes) < 8 THEN PadTo8(Append(bytes, 0)) ELSE bytes

\* an encoder that sends the first four bytes of a longer data
send_sdo_download_partial(node_id, idx, subindex, data) ==
    LET d   == IF Len(data) <= 4 THEN data ELSE SubSeq(data, 1, 4)
        n   == (4 - Len(d)) % 256
        ccs == BitOr(BitOr(32, Shl8(n, 2)), 3)
    IN  <<TxPacket("sdo", 1536 + node_id,
                   PadTo8(<<ccs>> \o U16LeBytes(idx) \o <<subindex>> \o d))>>

\* Driver::send_sdo_download: the transmit attempts it makes (none when the
\* data is longer than 4 bytes)
send_sdo_download(node_id, idx, subindex, data) ==
    IF Len(data) <= 4
    THEN LET n   == (4 - Len(data)) % 256
             ccs == BitOr(BitOr(32, Shl8(n, 2)), 3)
         IN  <<TxPacket("sdo", 1536 + node_id,
                        PadTo8(<<ccs>> \o U16LeBytes(idx) \o <<subindex>> \o data))>>
    ELSE <<>>

\* Driver::handle_write_command: the transmit attempts it makes, in order
handle_write_command(cmd) ==
    CASE cmd.type = "SendSync" -> <<SyncPacket>>
      [] cmd.type = "SendNmt" -> <<NmtPacket(cmd.nmt, cmd.node_id)>>
      [] cmd.type = "SendRaw" ->
            <<TxPacket("raw", BitAndMask(cmd.cob_id, 2047), cmd.data)>>
      [] cmd.type = "SendPdo" ->
            <<TxPacket("raw", BitAndMask(cmd.cob_id, 2047), cmd.data)>>
      [] cmd.type = "SendSdoDownload" ->
            send_sdo_download(cmd.node_id, cmd.index, cmd.subindex, cmd.data)
      [] cmd.type = "ConfigureTpdo1Statusword" ->
            <<NmtPacket("EnterPreOperational", cmd.node_id)>>
            \o send_sdo_download(cmd.node_id, 6144, 1,
                                 U32LeBytes(U32Add(U32(32768, 384), cmd.node_id)))
            \o send_sdo_download(cmd.node_id, 6656, 0, <<0>>)
            \o send_sdo_download(cmd.node_id, 6656, 1, U32LeBytes(U32(24641, 32)))
            \o send_sdo_download(cmd.node_id, 6656, 0, <<1>>)
            \o send_sdo_download(cmd.node_id, 6144, 1,
                                 U32LeBytes(U32Add(U32(0, 384), cmd.node_id)))
            \o <<NmtPacket("StartRemoteNode", cmd.node_id)>>
            \o send_sdo_download(cmd.node_id, 6144, 2, <<1>>)
      [] OTHER -> <<>>

\* The commands the producer enqueues in this model (MessageSender's defaults)
WriteInputs ==
    {SendSync,
     SendSdoDownload(1, 24640, 0, <<6, 0>>)}

\* The commands a holder of the write sender can enqueue (SpecWrite): node
\* ids over the range of u8, identifiers below and above 0x7FF, SDO data of
\* every length the panel accepts and, for the driver's own length check,
\* one byte longer
PanelNodes == {1, 127, 255}

PanelSdoData ==
    {<<>>, <<6>>, <<6, 0>>, <<1, 2, 3>>, <<255, 0, 255, 1>>, <<1, 2, 3, 4, 5>>}

\* (index, subindex) of the objects written
PanelObjects == {<<24640, 0>>, <<65535, 255>>}

PanelCobIds == {0, 384, 2047, 2048, 2432}

PanelRawData == {<<>>, <<1, 2, 3, 4, 5, 6, 7, 8>>}

PanelInputs ==
    {SendSync}
    \cup {SendNmt(n, c) : n \in {0, 127},
                          c \in {"StartRemoteNode", "EnterPreOperational"}}
    \cup {SendRaw(c, d) : c \in PanelCobIds, d \in PanelRawData}
    \cup {SendPdo(c, d) : c \in PanelCobIds, d \in PanelRawData}
    \cup {SendSdoDownload(n, o[1], o[2], d) :
            n \in PanelNodes, o \in PanelObjects, d \in PanelSdoData}
    \cup {ConfigureTpdo1Statusword(n) : n \in PanelNodes}

----------------------------------------------------------------------------
(* f64: a non-negative double is kept as its 53-bit significand and the      *)
(* exponent of the last bit of it; the significand, like every large         *)
(* natural here, is a sequence of 15-bit limbs, least significant first,     *)
(* the last one not zero. Operations round to nearest, ties to even.         *)

LimbBits == 15

LimbBase == 2^LimbBits

Zeros(k) == [i \in 1..k |-> 0]

\* x without its leading zero limbs
BigNorm(x) ==
    LET used == {i \in 1..Len(x) : x[i] # 0}
    IN  IF used = {} THEN <<>>
        ELSE SubSeq(x, 1, CHOOSE i \in used : \A j \in used : j <= i)

\* n < 2^30 as limbs
BigFromNat(n) == BigNorm(<<n % LimbBase, n \div LimbBase>>)

\* limb i of x, zero beyond its length
Limb(x, i) == IF i \in 1..Len(x) THEN x[i] ELSE 0

\* x + y; the carry into a limb comes from the nearest lower limb that
\* overflows, through limbs that are full
BigAdd(x, y) ==
    LET w == (IF Len(x) > Len(y) THEN Len(x) ELSE Len(y)) + 1
        Sum(i) == Limb(x, i) + Limb(y, i)
        Carry(i) == \E j \in 1..(i - 1) :
                        /\ Sum(j) >= LimbBase
                        /\ \A k \in (j + 1)..(i - 1) : Sum(k) = LimbBase - 1
    IN  BigNorm([i \in 1..w |->
                    (Sum(i) + (IF Carry(i) THEN 1 ELSE 0)) % LimbBase])

\* x * c for c < 2^15
BigMulSmall(x, c) ==
    BigAdd([i \in 1..Len(x) |-> (x[i] * c) % LimbBase],
           <<0>> \o [i \in 1..Len(x) |-> (x[i] * c) \div LimbBase])

\* x * 2^k
BigShl(x, k) ==
    IF x = <<>> THEN <<>>
    ELSE Zeros(k \div LimbBits) \o BigMulSmall(x, 2^(k % LimbBits))

\* x \div 2^k
BigShr(x, k) ==
    LET q == k \div LimbBits
        r == k % LimbBits
    IN  BigNorm([i \in 1..(Len(x) - q) |->
                    (Limb(x, q + i) \div 2^r)
                    + (Limb(x, q + i + 1) % 2^r) * 2^(LimbBits - r)])

\* bit k of x, bit 0 the least significant
BigBit(x, k) == (Limb(x, k \div LimbBits + 1) \div 2^(k % LimbBits)) % 2

\* x % 2^k # 0
BigLowBits(x, k) ==
    \/ \E i \in 1..(k \div LimbBits) : Limb(x, i) # 0
    \/ Limb(x, k \div LimbBits + 1) % 2^(k % LimbBits) # 0

\* the number of bits of x
BigLen(x) ==
    IF x = <<>> THEN 0
    ELSE LimbBits * (Len(x) - 1)
         + CHOOSE n \in 1..LimbBits : 2^(n - 1) <= x[Len(x)] /\ x[Len(x)] < 2^n

\* x < y
BigLess(x, y) ==
    \/ Len(x) < Len(y)
    \/ /\ Len(x) = Len(y)
       /\ \E i \in 1..Len(x) : /\ x[i] < y[i]
                               /\ \A j \in (i + 1)..Len(x) : x[j] = y[j]

F64Zero == [m |-> <<>>, e |-> 0]

\* the double nearest to (x + something below one if sticky) * 2^e
RoundF64(x, e, sticky) ==
    LET len == BigLen(x)
        s   == len - 53
    IN  IF x = <<>> THEN F64Zero
        ELSE IF len <= 53 THEN [m |-> BigShl(x, 53 - len), e |-> e - (53 - len)]
        ELSE LET m  == BigShr(x, s)
                 up == /\ BigBit(x, s - 1) = 1
                       /\ (sticky \/ BigLowBits(x, s - 1) \/ BigBit(m, 0) = 1)
                 m1 == BigAdd(m, <<1>>)
             IN  IF ~up THEN [m |-> m, e |-> e + s]
                 ELSE IF BigLen(m1) > 53
                      THEN [m |-> BigShr(m1, 1), e |-> e + s + 1]
                      ELSE [m |-> m1, e |-> e + s]

\* n as f64 (n < 2^30)
F64FromNat(n) == RoundF64(BigFromNat(n), 0, FALSE)

\* x + y
F64Add(x, y) ==
    IF x = F64Zero THEN y
    ELSE IF y = F64Zero THEN x
    ELSE LET e0 == IF x.e < y.e THEN x.e ELSE y.e
         IN  RoundF64(BigAdd(BigShl(x.m, x.e - e0), BigShl(y.m, y.e - e0)),
                      e0, FALSE)

\* x * (c as f64), c a small integer
F64MulNat(x, c) ==
    IF x = F64Zero THEN F64Zero ELSE RoundF64(BigMulSmall(x.m, c), x.e, FALSE)

\* the limbs of a quotient that are computed after the point
FracLimbs == 6

RECURSIVE FracDiv(_, _, _)
\* the first k limbs of r / d after the point (r < d <= 4096), and what is
\* left
FracDiv(r, d, k) ==
    IF k = 0 THEN [limbs |-> <<>>, rem |-> r]
    ELSE LET t    == r * LimbBase
             rest == FracDiv(t % d, d, k - 1)
         IN  [limbs |-> Append(rest.limbs, t \div d), rem |-> rest.rem]

\* (n as f64) / (d as f64) for n < 2^30 and d <= 4096: the double nearest to
\* the quotient
F64DivNat(n, d) ==
    LET f == FracDiv(n % d, d, FracLimbs)
    IN  RoundF64(BigNorm(f.limbs \o <<(n \div d) % LimbBase,
                                      (n \div d) \div LimbBase>>),
                 -(FracLimbs * LimbBits), f.rem # 0)

RECURSIVE BigDivSmall(_, _)
\* quotient and remainder of x by c (0 < c < 2^15), from the highest limb down
BigDivSmall(x, c) ==
    IF x = <<>> THEN [q |-> <<>>, r |-> 0]
    ELSE LET hi == BigDivSmall(Tail(x), c)
             t  == hi.r * LimbBase + Head(x)
         IN  [q |-> <<t \div c>> \o hi.q, r |-> t % c]

\* x / (c as f64) for 0 < c < 2^15: the double nearest to the quotient
F64DivByNat(x, c) ==
    IF x = F64Zero THEN F64Zero
    ELSE LET d == BigDivSmall(BigShl(x.m, 4 * LimbBits), c)
         IN  RoundF64(BigNorm(d.q), x.e - 4 * LimbBits, d.r # 0)

\* x < y
F64Less(x, y) ==
    IF y = F64Zero THEN FALSE
    ELSE IF x = F64Zero THEN TRUE
    ELSE x.e < y.e \/ (x.e = y.e /\ BigLess(x.m, y.m))

\* f64::min and f64::max
F64Min(x, y) == IF F64Less(y, x) THEN y ELSE x

F64Max(x, y) == IF F64Less(x, y) THEN y ELSE x

\* Duration::as_secs_f64 of a duration of ms milliseconds:
\* (secs as f64) + (nanos as f64) / 1e9; nanos and 1e9 are exact doubles, and
\* nanos / 1e9 is the same quotient as (ms % 1000) / 1000
as_secs_f64(ms) ==
    F64Add(F64FromNat(ms \div 1000), F64DivNat(ms % 1000, 1000))

----------------------------------------------------------------------------
(* MessageSender: the text fields and their parsers *)

\* MessageSender::new
MessageSenderNew ==
    [nmt_node_id |-> "1", nmt_command |-> "StartRemoteNode",
     raw_cob_id |-> "180", raw_data |-> "00 00 00 00 00 00 00 00",
     emcy_node_id |-> "1", emcy_error_code |-> "1000",
     emcy_error_register |-> "00", emcy_data |-> "00 00 00 00 00",
     sdo_node_id |-> "1", sdo_index |-> "6040", sdo_subindex |-> "00",
     sdo_data |-> "06 00", pdo_config_node_id |-> "1"]

\* nothing returned yet
NoRet == [op |-> "none", arg |-> "", val |-> [ok |-> FALSE, panic |-> FALSE, v |-> <<>>]]

Ok(v) == [ok |-> TRUE, panic |-> FALSE, v |-> v]

Err == [ok |-> FALSE, panic |-> FALSE, v |-> <<>>]

Panic == [ok |-> FALSE, panic |-> TRUE, v |-> <<>>]

\* str::chars
Chars(s) == [i \in 1..Len(s) |-> SubSeq(s, i, i)]

\* char::is_whitespace
is_whitespace(c) == c \in {" ", "\t"}

\* the value of each character that is a digit in some radix up to 16
DigitValue ==
    [c \in {"0", "1", "2", "3", "4", "5", "6", "7", "8", "9", "a", "b", "c",
            "d", "e", "f", "A", "B", "C", "D", "E", "F"} |->
        CASE c = "0" -> 0 [] c = "1" -> 1 [] c = "2" -> 2 [] c = "3" -> 3
          [] c = "4" -> 4 [] c = "5" -> 5 [] c = "6" -> 6 [] c = "7" -> 7
          [] c = "8" -> 8 [] c = "9" -> 9
          [] c \in {"a", "A"} -> 10 [] c \in {"b", "B"} -> 11
          [] c \in {"c", "C"} -> 12 [] c \in {"d", "D"} -> 13
          [] c \in {"e", "E"} -> 14 [] c \in {"f", "F"} -> 15]

\* char::to_digit(radix): the digit, or -1 for none
to_digit(c, radix) ==
    IF c \in DOMAIN DigitValue
    THEN IF DigitValue[c] < radix THEN DigitValue[c] ELSE -1
    ELSE -1

RECURSIVE DigitsValue(_, _)
\* the number written by the digits ds (fewer than 7 digits)
DigitsValue(ds, radix) ==
    IF ds = <<>> THEN 0
    ELSE DigitsValue(SubSeq(ds, 1, Len(ds) - 1), radix) * radix
         + to_digit(ds[Len(ds)], radix)

\* uN::from_str_radix for N = bits, on the characters cs (fewer than 8): an
\* empty text, a lone sign, a character that is no digit and a value that
\* does not fit are errors; one leading '+' is accepted
from_str_radix(cs, radix, bits) ==
    IF cs = <<>> THEN Err
    ELSE IF Len(cs) = 1 /\ cs[1] \in {"+", "-"} THEN Err
    ELSE LET digits == IF cs[1] = "+" THEN Tail(cs) ELSE cs
         IN  IF \E i \in 1..Len(digits) : to_digit(digits[i], radix) = -1
             THEN Err
             ELSE IF bits < 30 /\ DigitsValue(digits, radix) >= 2^bits
             THEN Err
             ELSE Ok(DigitsValue(digits, radix))

\* str::parse::<u8>
parse_u8(s) == from_str_radix(Chars(s), 10, 8)

\* the UTF-8 bytes of a character: the character itself when it is one byte,
\* the names of its two bytes otherwise
Utf8Char(c) == IF c = "é" THEN <<"C3", "A9">> ELSE <<c>>

RECURSIVE Utf8(_)
Utf8(cs) == IF cs = <<>> THEN <<>> ELSE Utf8Char(Head(cs)) \o Utf8(Tail(cs))

\* str::is_char_boundary(i) on the bytes b
is_char_boundary(b, i) == i = 0 \/ i = Len(b) \/ (i < Len(b) /\ b[i + 1] # "A9")

\* the characters of the two bytes b[i .. i + 2]
SliceChars(b, i) ==
    IF b[i + 1] = "C3" THEN <<"é">> ELSE <<b[i + 1], b[i + 2]>>

RECURSIVE parse_hex_pairs(_, _, _)
\* the loop of parse_hex_data from byte offset i on: slicing off a character
\* boundary panics, a pair that from_str_radix refuses ends with the error
parse_hex_pairs(b, i, result) ==
    IF i >= Len(b) THEN Ok(result)
    ELSE IF ~is_char_boundary(b, i) \/ ~is_char_boundary(b, i + 2) THEN Panic
    ELSE LET byte == from_str_radix(SliceChars(b, i), 16, 8)
         IN  IF byte.ok THEN parse_hex_pairs(b, i + 2, Append(result, byte.v))
             ELSE Err

\* parse_hex_data
parse_hex_data(s) ==
    LET cleaned == Utf8(SelectSeq(Chars(s), LAMBDA c : ~is_whitespace(c)))
    IN  IF Len(cleaned) % 2 # 0 THEN Err ELSE parse_hex_pairs(cleaned, 0, <<>>)

----------------------------------------------------------------------------
(* BusStats *)

\* Option::None
None == [some |-> FALSE]

Some(v) == [some |-> TRUE, v |-> v]

\* a rate is kept as the quotient it is computed from: n messages in ms
\* milliseconds
Rate(n, ms) == [n |-> n, ms |-> ms]

\* 0.0 as a rate
RateZero == Rate(0, 1)

\* HashMap::new
EmptyMap == [id \in {} |-> 0]

\* the samples kept of the inter-frame gaps and of the bus load
GapHistoryCap == 1000

LoadSamplesCap == 100

\* the age in seconds above which an entry leaves the rate window, and the
\* time in seconds after start from which the rates per identifier are set
RateWindowSecs == 5

RateStartSecs == 1

\* BusStats::new; start_time is the origin of the clock
BusStatsNew ==
    [total_messages |-> 0, messages_history |-> <<>>,
     current_load |-> 0, peak_load |-> 0, avg_load |-> F64Zero,
     load_samples |-> <<>>,
     last_message_time |-> None, min_gap |-> None, max_gap |-> None,
     gap_sum |-> F64Zero, gap_count |-> 0, gap_history |-> <<>>,
     cob_id_counts |-> EmptyMap, cob_id_last_seen |-> EmptyMap,
     cob_id_rates |-> EmptyMap,
     current_msg_rate |-> RateZero, peak_msg_rate |-> RateZero,
     avg_msg_rate |-> RateZero, start_time |-> 0]

\* a window that refuses the new sample when it is full
PushCapped_keepOldest(q, v, cap) ==
    IF Len(q) + 1 > cap THEN q ELSE Append(q, v)

\* VecDeque::push_back, then one pop_front when the length exceeds cap
PushCapped(q, v, cap) ==
    IF Len(q) + 1 > cap THEN Tail(Append(q, v)) ELSE Append(q, v)

\* a count that starts again at 1 with every message
MapIncrement_once(m, k) == [id \in DOMAIN m \cup {k} |-> IF id = k THEN 1 ELSE m[id]]

\* HashMap::insert, and entry().or_insert(0) followed by += 1
MapInsert(m, k, v) ==
    [id \in DOMAIN m \cup {k} |-> IF id = k THEN v ELSE m[id]]

MapIncrement(m, k) ==
    MapInsert(m, k, (IF k \in DOMAIN m THEN m[k] ELSE 0) + 1)

\* (timestamp - last_time).as_secs_f64() * 1000.0
GapMs(timestamp, last_time) ==
    F64MulNat(as_secs_f64(timestamp - last_time), 1000)

\* a rate window that also drops the entry that is exactly 5 seconds old
PruneHistory_fromFiveSeconds(h, timestamp) ==
    LET Old(i) == ~F64Less(as_secs_f64(timestamp - h[i][1]),
                           F64FromNat(RateWindowSecs))
        fresh  == {i \in 1..Len(h) : ~Old(i)}
    IN  SubSeq(h, CHOOSE i \in fresh : \A j \in fresh : i <= j, Len(h))

\* the while loop of on_message: entries leave the front of the rate window
\* as long as the front is older than 5 seconds
PruneHistory(h, timestamp) ==
    LET Old(i) == F64Less(F64FromNat(RateWindowSecs),
                          as_secs_f64(timestamp - h[i][1]))
        fresh  == {i \in 1..Len(h) : ~Old(i)}
    IN  SubSeq(h, CHOOSE i \in fresh : \A j \in fresh : i <= j, Len(h))

\* BusStats::on_message
on_message(bs, cob_id, timestamp) ==
    LET gap_ms == GapMs(timestamp, bs.last_message_time.v)
        gaps   == IF bs.last_message_time.some
                  THEN [bs EXCEPT
                          !.min_gap = Some(IF @.some THEN F64Min(@.v, gap_ms)
                                           ELSE gap_ms),
                          !.max_gap = Some(IF @.some THEN F64Max(@.v, gap_ms)
                                           ELSE gap_ms),
                          !.gap_sum = F64Add(@, gap_ms),
                          !.gap_count = @ + 1,
                          !.gap_history = PushCapped(@, gap_ms, GapHistoryCap)]
                  ELSE bs
    IN  [gaps EXCEPT
           !.total_messages = @ + 1,
           !.cob_id_counts = MapIncrement(@, cob_id),
           !.last_message_time = Some(timestamp),
           !.cob_id_last_seen = MapInsert(@, cob_id, timestamp),
           !.messages_history =
               PruneHistory(Append(@, <<timestamp, bs.total_messages + 1>>),
                            timestamp)]

RECURSIVE SumSeq(_)
\* the sum of a sequence, by halves
SumSeq(q) ==
    IF Len(q) = 0 THEN 0
    ELSE IF Len(q) = 1 THEN q[1]
    ELSE SumSeq(SubSeq(q, 1, Len(q) \div 2))
         + SumSeq(SubSeq(q, Len(q) \div 2 + 1, Len(q)))

\* update_load with the peak following the current load
update_load_peakIsCurrent(bs, load) ==
    LET samples == PushCapped(bs.load_samples, load, LoadSamplesCap)
    IN  [bs EXCEPT
           !.current_load = load,
           !.peak_load = load,
           !.load_samples = samples,
           !.avg_load = F64DivNat(SumSeq(samples), Len(samples))]

\* BusStats::update_load; the loads are whole percentages, whose sum is exact
update_load(bs, load) ==
    LET samples == PushCapped(bs.load_samples, load, LoadSamplesCap)
    IN  [bs EXCEPT
           !.current_load = load,
           !.peak_load = IF @ < load THEN load ELSE @,
           !.load_samples = samples,
           !.avg_load = F64DivNat(SumSeq(samples), Len(samples))]

\* a < b for rates
RateLess(a, b) == a.n * b.ms < b.n * a.ms

\* calculate_msg_rate without the test of the duration: a window whose two
\* ends have one timestamp gives the rate 0.0
calculate_msg_rate_zeroOnNoSpan(bs, now) ==
    LET h        == bs.messages_history
        duration == h[Len(h)][1] - h[1][1]
        current  == IF duration = 0 THEN RateZero
                    ELSE Rate(h[Len(h)][2] - h[1][2], duration)
    IN  IF Len(h) < 2 THEN [bs EXCEPT !.current_msg_rate = RateZero]
        ELSE [bs EXCEPT
                !.current_msg_rate = current,
                !.peak_msg_rate = IF RateLess(@, current) THEN current ELSE @,
                !.avg_msg_rate =
                    IF F64Less(F64Zero, as_secs_f64(now - bs.start_time))
                    THEN Rate(bs.total_messages, now - bs.start_time)
                    ELSE @]

\* BusStats::calculate_msg_rate, called at time now
calculate_msg_rate(bs, now) ==
    LET h        == bs.messages_history
        first    == h[1]
        last     == h[Len(h)]
        duration == last[1] - first[1]
        current  == Rate(last[2] - first[2], duration)
    IN  IF Len(h) < 2 THEN [bs EXCEPT !.current_msg_rate = RateZero]
        ELSE IF F64Less(F64Zero, as_secs_f64(duration))
        THEN [bs EXCEPT
                !.current_msg_rate = current,
                !.peak_msg_rate = IF RateLess(@, current) THEN current ELSE @,
                !.avg_msg_rate =
                    IF F64Less(F64Zero, as_secs_f64(now - bs.start_time))
                    THEN Rate(bs.total_messages, now - bs.start_time)
                    ELSE @]
        ELSE bs

\* calculate_cob_id_rates that sets the rates from one second on
calculate_cob_id_rates_fromOneSecond(bs, now) ==
    LET duration == now - bs.start_time
        set      == {id \in DOMAIN bs.cob_id_last_seen :
                        /\ id \in DOMAIN bs.cob_id_counts
                        /\ ~F64Less(as_secs_f64(duration),
                                    F64FromNat(RateStartSecs))}
    IN  [bs EXCEPT
           !.cob_id_rates =
               [id \in DOMAIN @ \cup set |->
                   IF id \in set THEN Rate(bs.cob_id_counts[id], duration)
                   ELSE @[id]]]

\* BusStats::calculate_cob_id_rates
calculate_cob_id_rates(bs, now) ==
    LET duration == now - bs.start_time
        set      == {id \in DOMAIN bs.cob_id_last_seen :
                        /\ id \in DOMAIN bs.cob_id_counts
                        /\ F64Less(F64FromNat(RateStartSecs),
                                   as_secs_f64(duration))}
    IN  [bs EXCEPT
           !.cob_id_rates =
               [id \in DOMAIN @ \cup set |->
                   IF id \in set THEN Rate(bs.cob_id_counts[id], duration)
                   ELSE @[id]]]

\* the orders in which a HashMap with the keys ids can be iterated
IterationOrders(ids) ==
    {p \in [1..Cardinality(ids) -> ids] :
        \A i, j \in 1..Cardinality(ids) : i # j => p[i] # p[j]}

\* a sort by rising rate
SortByRate_rising(v) ==
    LET Before(i, j) == \/ RateLess(v[i][2], v[j][2])
                        \/ ~RateLess(v[j][2], v[i][2]) /\ i < j
        Place(i)     == 1 + Cardinality({j \in 1..Len(v) : Before(j, i)})
    IN  [k \in 1..Len(v) |-> v[CHOOSE i \in 1..Len(v) : Place(i) = k]]

\* slice::sort_by with b.1.partial_cmp(&a.1): stable, by falling rate
SortByRate(v) ==
    LET Before(i, j) == \/ RateLess(v[j][2], v[i][2])
                        \/ ~RateLess(v[i][2], v[j][2]) /\ i < j
        Place(i)     == 1 + Cardinality({j \in 1..Len(v) : Before(j, i)})
    IN  [k \in 1..Len(v) |-> v[CHOOSE i \in 1..Len(v) : Place(i) = k]]

\* Vec::truncate
Truncate(v, n) == IF Len(v) > n THEN SubSeq(v, 1, n) ELSE v

\* BusStats::get_top_cob_ids: the vectors it can return, one for each order
\* in which the rate table is iterated
get_top_cob_ids(bs, n) ==
    {Truncate(SortByRate([i \in 1..Len(p) |-> <<p[i], bs.cob_id_rates[p[i]]>>]),
              n) : p \in IterationOrders(DOMAIN bs.cob_id_rates)}

\* BusStats::avg_gap
avg_gap(bs) ==
    IF bs.gap_count > 0 THEN Some(F64DivByNat(bs.gap_sum, bs.gap_count))
    ELSE None

\* BusStats::jitter: no value with fewer than 2 gap samples, and else the
\* standard deviation of the samples of the gap window
jitter(bs) ==
    IF Len(bs.gap_history) < 2 THEN None
    ELSE [some |-> TRUE, of |-> bs.gap_history]

----------------------------------------------------------------------------
(* The state of the driver *)

\* State::default(); can_name and bitrate are never written by the driver
DefaultState == [data |-> <<>>, info |-> 0, exit_signal |-> FALSE]

\* the values of the local rcv of Driver::process
RcvNone == [kind |-> "None", frame |-> 0]
RcvOk(frame) == [kind |-> "Ok", frame |-> frame]
RcvErr == [kind |-> "Err", frame |-> 0]

\* MessageCached::new(index, d)
MessageCached(i, d) == [index |-> i, msg |-> d]

\* What Gui holds before its first read: an empty list, the default info;
\* total is bus_stats.total_messages, exit the value get_data_from_driver
\* returned last, reads and borrowed record its reads
GuiNew == [data |-> <<>>, info |-> 0, total |-> 0, exit |-> FALSE,
           reads |-> 0, borrowed |-> DefaultState]

\* The initial Control is the one main hands to Driver::new; Kill is the
\* shutdown request and never the initial command.
InitCommands == {"Process", "Stop"}

Init ==
    /\ pc = "select"
    /\ control \in [command : InitCommands, connection : Connections]
    /\ ctrl_chan = control
    /\ ctrl_changed = FALSE
    /\ co_connection = control.connection
    /\ co_info = 0
    /\ co_lock = "none"
    /\ state = DefaultState
    /\ published = DefaultState
    /\ index = 0
    /\ rcv = RcvNone
    /\ wcmd = NoCmd
    /\ wtodo = <<>>
    /\ tx = <<>>
    /\ wq = <<>>
    /\ rx = <<>>
    /\ nextFrame = 1
    /\ nextCmd = 1
    /\ events = 0
    /\ steps = <<>>
    /\ pubs = 0
    /\ last_sent = control
    /\ unseen = 0
    /\ skipped = {}
    /\ collapsed = {}
    /\ ingested = <<>>
    /\ accepted = <<>>
    /\ handled = <<>>
    /\ dropped = {}
    /\ gui = GuiNew
    /\ unread = TRUE
    /\ state_rx_open = TRUE
    /\ ctrl_tx_open = TRUE
    /\ bus_stats = BusStatsNew
    /\ clock = 0
    /\ calls = <<>>
    /\ form = MessageSenderNew
    /\ ret = NoRet

----------------------------------------------------------------------------
(* The environment: the bus port, the GUI, the message sender panel *)

\* one more event of the environment, while the run has some left
Budget(maxEvents) == events < maxEvents /\ events' = events + 1

\* the bus port delivers a frame into co.rx
BusFrame(maxFrames, maxEvents) ==
    /\ Budget(maxEvents)
    /\ nextFrame <= maxFrames
    /\ Len(rx) < MaxPending
    /\ rx' = Append(rx, nextFrame)
    /\ nextFrame' = nextFrame + 1
    /\ UNCHANGED <<co_lock, pc, control, state, index, rcv, wcmd, wtodo, tx,
                   ctrl_chan, ctrl_changed, published, wq, co_connection,
                   co_info, nextCmd, steps, pubs, last_sent, unseen, skipped,
                   collapsed, ingested, accepted, handled, dropped,
                   gui, unread, state_rx_open, ctrl_tx_open,
                   bus_stats, clock, calls, form, ret>>

\* the port refreshes its info snapshot
PortInfo ==
    /\ Budget(MaxEvents)
    /\ co_info < MaxInfo
    /\ co_info' = co_info + 1
    /\ UNCHANGED <<co_lock, pc, control, state, index, rcv, wcmd, wtodo, tx,
                   ctrl_chan, ctrl_changed, published, wq, rx, co_connection,
                   nextFrame, nextCmd, steps, pubs, last_sent, unseen,
                   skipped, collapsed, ingested, accepted, handled, dropped,
                   gui, unread, state_rx_open, ctrl_tx_open,
                   bus_stats, clock, calls, form, ret>>

\* the port takes the mutex of its connection descriptor to read it
PortLock ==
    /\ Budget(MaxEvents)
    /\ co_lock = "none"
    /\ co_lock' = "port"
    /\ UNCHANGED <<pc, control, state, index, rcv, wcmd, wtodo, tx,
                   ctrl_chan, ctrl_changed, published, wq, rx, co_connection,
                   co_info, nextFrame, nextCmd, steps, pubs, last_sent, unseen,
                   skipped, collapsed, ingested, accepted, handled, dropped,
                   gui, unread, state_rx_open, ctrl_tx_open,
                   bus_stats, clock, calls, form, ret>>

\* the port releases the mutex of its connection descriptor
PortUnlock ==
    /\ co_lock = "port"
    /\ co_lock' = "none"
    /\ UNCHANGED <<events, pc, control, state, index, rcv, wcmd, wtodo, tx,
                   ctrl_chan, ctrl_changed, published, wq, rx, co_connection,
                   co_info, nextFrame, nextCmd, steps, pubs, last_sent, unseen,
                   skipped, collapsed, ingested, accepted, handled, dropped,
                   gui, unread, state_rx_open, ctrl_tx_open,
                   bus_stats, clock, calls, form, ret>>

\* watch::Sender<Control>::send: overwrite the slot, mark it changed
WatchSend(c) ==
    /\ Budget(MaxEvents)
    /\ ctrl_tx_open
    /\ unseen < MaxCtlBurst
    /\ ctrl_chan' = c
    /\ ctrl_changed' = TRUE
    /\ last_sent' = c
    /\ unseen' = unseen + 1
    /\ skipped' = IF unseen > 0 THEN skipped \cup {ctrl_chan.command} ELSE skipped
    /\ UNCHANGED <<co_lock, pc, control, state, index, rcv, wcmd, wtodo, tx,
                   published, wq, rx, co_connection, co_info, nextFrame,
                   nextCmd, steps, pubs, collapsed, ingested, accepted,
                   handled, dropped,
                   gui, unread, state_rx_open, ctrl_tx_open,
                   bus_stats, clock, calls, form, ret>>

\* Gui::send_driver_control: Stop or Process by the stopped flag
send_driver_control ==
    \E stopped \in BOOLEAN, connection \in Connections :
        WatchSend([command |-> IF stopped THEN "Stop" ELSE "Process",
                   connection |-> connection])

\* the Kill request on the control channel, with the connection in use
SendKill ==
    WatchSend([command |-> "Kill", connection |-> ctrl_chan.connection])

\* mpsc::Sender::try_send: whether the attempt succeeds
HasCapacity(q) == Len(q) < WriteQueueCap

\* a queue that makes room by evicting its oldest entry
try_send_evicting(q, cmd) ==
    IF HasCapacity(q) THEN Append(q, cmd) ELSE Append(Tail(q), cmd)

\* mpsc::Sender::try_send: the queue after the attempt
try_send(q, cmd) == IF HasCapacity(q) THEN Append(q, cmd) ELSE q

\* the message sender panel: let _ = self.write_sender.try_send(cmd)
EnqueueWrite(inputs) ==
    /\ Budget(MaxEvents)
    /\ nextCmd <= MaxWrites
    /\ \E c \in inputs :
         wq' = try_send(wq, [c EXCEPT !.id = nextCmd])
    /\ IF HasCapacity(wq)
       THEN accepted' = Append(accepted, nextCmd) /\ dropped' = dropped
       ELSE accepted' = accepted /\ dropped' = dropped \cup {nextCmd}
    /\ nextCmd' = nextCmd + 1
    /\ UNCHANGED <<co_lock, pc, control, state, index, rcv, wcmd, wtodo, tx,
                   ctrl_chan, ctrl_changed, published, rx, co_connection,
                   co_info, nextFrame, steps, pubs, last_sent, unseen,
                   skipped, collapsed, ingested, handled,
                   gui, unread, state_rx_open, ctrl_tx_open,
                   bus_stats, clock, calls, form, ret>>

RECURSIVE MergeLog(_, _, _)
\* The loop of Gui::get_data_from_driver over the borrowed log: an entry not
\* newer than the front of the list is passed over; any other is counted by
\* bus_stats.on_message and pushed to the front unless the global filter
\* hides it (hidden: the indices the filter rejects at this read).
MergeLog(g, log, hidden) ==
    IF log = <<>> THEN g
    ELSE LET i  == Head(log)
             g1 == IF g.data # <<>> /\ i.index <= Head(g.data).index
                   THEN g
                   ELSE [g EXCEPT !.total = @ + 1,
                                  !.data = IF i.index \in hidden
                                           THEN @ ELSE <<i>> \o @]
         IN  MergeLog(g1, Tail(log), hidden)

\* while self.data.len() > MESSAGES_COUNT { self.data.pop_back() }
TruncateList(data) ==
    IF Len(data) > MESSAGES_COUNT THEN SubSeq(data, 1, MESSAGES_COUNT) ELSE data

\* Gui::get_data_from_driver: borrow the State the channel holds now, merge
\* its log, copy its info, return its exit signal
get_data_from_driver ==
    /\ Budget(MaxEvents)
    /\ state_rx_open
    /\ \E hidden \in SUBSET {published.data[i].index : i \in DOMAIN published.data} :
         LET g == MergeLog(gui, published.data, hidden)
         IN  gui' = [g EXCEPT !.data = TruncateList(@),
                              !.info = published.info,
                              !.exit = published.exit_signal,
                              !.reads = @ + 1,
                              !.borrowed = published]
    /\ unread' = FALSE
    /\ UNCHANGED <<co_lock, pc, control, state, index, rcv, wcmd, wtodo, tx,
                   ctrl_chan, ctrl_changed, published, wq, rx, co_connection,
                   co_info, nextFrame, nextCmd, steps, pubs, last_sent, unseen,
                   skipped, collapsed, ingested, accepted, handled, dropped,
                   state_rx_open, ctrl_tx_open,
                   bus_stats, clock, calls, form, ret>>

\* the manufacturer data typed into the EMCY form
EmcyData == {<<0, 0, 0, 0, 0>>, <<1, 2, 3, 4, 255>>, <<1, 2, 3, 4>>,
             <<1, 2, 3, 4, 5, 6>>}

\* MessageSender::show_emcy_ui, the button clicked: the command is enqueued
\* when the manufacturer data has exactly 5 bytes, and only logged otherwise
show_emcy_ui ==
    \E n \in {1, 127}, code \in {4096, 65281}, d \in EmcyData :
        IF Len(d) = 5
        THEN /\ nextCmd <= MaxPanelWrites
             /\ EnqueueWrite({SendEmcy(n, code, 129, d)})
        ELSE /\ Budget(MaxEvents)
             /\ UNCHANGED <<co_lock, pc, control, state, index, rcv, wcmd, wtodo, tx,
                            ctrl_chan, ctrl_changed, published, wq, rx,
                            co_connection, co_info, nextFrame, nextCmd, steps,
                            pubs, last_sent, unseen, skipped, collapsed,
                            ingested, accepted, handled, dropped, gui, unread,
                            state_rx_open, ctrl_tx_open,
                   bus_stats, clock, calls, form, ret>>

\* the Gui is gone with its watch::Receiver<State>, the only one
DropStateReceiver ==
    /\ Budget(MaxEvents)
    /\ state_rx_open
    /\ state_rx_open' = FALSE
    /\ UNCHANGED <<co_lock, pc, control, state, index, rcv, wcmd, wtodo, tx,
                   ctrl_chan, ctrl_changed, published, wq, rx, co_connection,
                   co_info, nextFrame, nextCmd, steps, pubs, last_sent, unseen,
                   skipped, collapsed, ingested, accepted, handled, dropped,
                   gui, unread, ctrl_tx_open,
                   bus_stats, clock, calls, form, ret>>

\* the watch::Sender<Control> is dropped
DropControlSender ==
    /\ Budget(MaxEvents)
    /\ ctrl_tx_open
    /\ ctrl_tx_open' = FALSE
    /\ UNCHANGED <<co_lock, pc, control, state, index, rcv, wcmd, wtodo, tx,
                   ctrl_chan, ctrl_changed, published, wq, rx, co_connection,
                   co_info, nextFrame, nextCmd, steps, pubs, last_sent, unseen,
                   skipped, collapsed, ingested, accepted, handled, dropped,
                   gui, unread, state_rx_open,
                   bus_stats, clock, calls, form, ret>>

----------------------------------------------------------------------------
(* The message sender panel: the forms and their buttons *)

\* the texts typed into the node id fields
NodeTexts == {"0", "127", "128", "200", "+5", "256", "1a"}

\* the texts typed into the COB-ID field
CobIdTexts == {"7FF", "800", "+1", "18g"}

\* the texts typed into the data fields
DataTexts == {"", "01 02 03 04", "0102030405", "+F",
              "00 01 02 03 04 05 06 07 08"}

\* the texts typed into the SDO index and subindex fields
IndexTexts == {"1800", "10000"}

SubindexTexts == {"ff", "100"}

\* the texts a field of the panel takes
PanelTexts(field) ==
    CASE field \in {"nmt_node_id", "sdo_node_id", "pdo_config_node_id"}
           -> NodeTexts
      [] field = "raw_cob_id" -> CobIdTexts
      [] field \in {"raw_data", "sdo_data"} -> DataTexts
      [] field = "sdo_index" -> IndexTexts
      [] field = "sdo_subindex" -> SubindexTexts

PanelFields == {"nmt_node_id", "sdo_node_id", "pdo_config_node_id",
                "raw_cob_id", "raw_data", "sdo_data", "sdo_index",
                "sdo_subindex"}

\* the fields that no longer hold the text of MessageSender::new
Edited == {field \in PanelFields : form[field] # MessageSenderNew[field]}

\* a text field of the panel is edited (egui TextEdit bound to the field)
EditText ==
    /\ Budget(MaxEvents)
    /\ \E field \in PanelFields :
         \E t \in PanelTexts(field) :
             /\ form[field] # t
             /\ Cardinality(Edited \cup {field}) <= MaxEdits
             /\ form' = [form EXCEPT ![field] = t]
    /\ UNCHANGED <<co_lock, pc, control, state, index, rcv, wcmd, wtodo, tx,
                   ctrl_chan, ctrl_changed, published, wq, rx, co_connection,
                   co_info, nextFrame, nextCmd, steps, pubs, last_sent, unseen,
                   skipped, collapsed, ingested, accepted, handled, dropped,
                   gui, unread, state_rx_open, ctrl_tx_open, bus_stats, clock, calls, ret>>

\* a click that only logs an error
LogOnly ==
    /\ Budget(MaxEvents)
    /\ UNCHANGED <<co_lock, pc, control, state, index, rcv, wcmd, wtodo, tx,
                   ctrl_chan, ctrl_changed, published, wq, rx, co_connection,
                   co_info, nextFrame, nextCmd, steps, pubs, last_sent, unseen,
                   skipped, collapsed, ingested, accepted, handled, dropped,
                   gui, unread, state_rx_open, ctrl_tx_open, bus_stats, clock, calls, form, ret>>

\* MessageSender::show_nmt_ui, the button clicked
show_nmt_ui ==
    LET node_id == parse_u8(form.nmt_node_id)
    IN  IF node_id.ok
        THEN IF node_id.v <= 127
             THEN EnqueueWrite({SendNmt(node_id.v, form.nmt_command)})
             ELSE LogOnly
        ELSE LogOnly

\* MessageSender::show_pdo_ui, the button clicked
show_pdo_ui ==
    LET cob_id == from_str_radix(Chars(form.raw_cob_id), 16, 32)
        data   == parse_hex_data(form.raw_data)
    IN  IF cob_id.ok
        THEN IF data.ok
             THEN IF Len(data.v) <= 8
                  THEN EnqueueWrite({SendPdo(cob_id.v, data.v)})
                  ELSE LogOnly
             ELSE ~data.panic /\ LogOnly
        ELSE LogOnly

\* MessageSender::show_raw_ui, the button clicked
show_raw_ui ==
    LET cob_id == from_str_radix(Chars(form.raw_cob_id), 16, 32)
        data   == parse_hex_data(form.raw_data)
    IN  IF cob_id.ok
        THEN IF data.ok
             THEN IF Len(data.v) <= 8
                  THEN EnqueueWrite({SendRaw(cob_id.v, data.v)})
                  ELSE LogOnly
             ELSE ~data.panic /\ LogOnly
        ELSE LogOnly

\* MessageSender::show_sdo_ui, the button clicked
show_sdo_ui ==
    LET node_id  == parse_u8(form.sdo_node_id)
        idx      == from_str_radix(Chars(form.sdo_index), 16, 16)
        subindex == from_str_radix(Chars(form.sdo_subindex), 16, 8)
        data     == parse_hex_data(form.sdo_data)
    IN  IF node_id.ok /\ idx.ok /\ subindex.ok
        THEN IF data.ok
             THEN IF Len(data.v) <= 4
                  THEN EnqueueWrite({SendSdoDownload(node_id.v, idx.v,
                                                     subindex.v, data.v)})
                  ELSE LogOnly
             ELSE ~data.panic /\ LogOnly
        ELSE LogOnly

\* MessageSender::show_pdo_config_ui, the button clicked
show_pdo_config_ui ==
    LET node_id == parse_u8(form.pdo_config_node_id)
    IN  IF node_id.ok
        THEN EnqueueWrite({ConfigureTpdo1Statusword(node_id.v)})
        ELSE LogOnly

\* the characters typed into the data field
HexAlphabet == {"0", "A", "f", "G", " ", "+", "é"}

\* the data field is emptied (select all, delete)
ClearData ==
    /\ form.raw_data # ""
    /\ form' = [form EXCEPT !.raw_data = ""]
    /\ ret' = NoRet
    /\ UNCHANGED <<co_lock, events, pc, control, state, index, rcv, wcmd, wtodo, tx,
                   ctrl_chan, ctrl_changed, published, wq, rx, co_connection,
                   co_info, nextFrame, nextCmd, steps, pubs, last_sent, unseen,
                   skipped, collapsed, ingested, accepted, handled, dropped,
                   gui, unread, state_rx_open, ctrl_tx_open, bus_stats, clock, calls>>

\* one more character is typed at the end of the data field
TypeData ==
    /\ Len(form.raw_data) < MaxHexLen
    /\ \E c \in HexAlphabet : form' = [form EXCEPT !.raw_data = @ \o c]
    /\ ret' = NoRet
    /\ UNCHANGED <<co_lock, events, pc, control, state, index, rcv, wcmd, wtodo, tx,
                   ctrl_chan, ctrl_changed, published, wq, rx, co_connection,
                   co_info, nextFrame, nextCmd, steps, pubs, last_sent, unseen,
                   skipped, collapsed, ingested, accepted, handled, dropped,
                   gui, unread, state_rx_open, ctrl_tx_open, bus_stats, clock, calls>>

\* parse_hex_data(&self.raw_data), as the click handlers call it
CallParseHexData ==
    /\ ret = NoRet
    /\ ret' = [op |-> "parse_hex_data", arg |-> form.raw_data,
               val |-> parse_hex_data(form.raw_data)]
    /\ UNCHANGED <<co_lock, events, form, pc, control, state, index, rcv, wcmd, wtodo, tx,
                   ctrl_chan, ctrl_changed, published, wq, rx, co_connection,
                   co_info, nextFrame, nextCmd, steps, pubs, last_sent, unseen,
                   skipped, collapsed, ingested, accepted, handled, dropped,
                   gui, unread, state_rx_open, ctrl_tx_open, bus_stats, clock, calls>>

----------------------------------------------------------------------------
(* The statistics engine as the GUI drives it *)

\* a call of the engine as the history keeps it
Call(op, cob_id, t, v) == [op |-> op, cob_id |-> cob_id, t |-> t, v |-> v]

\* time passes: Instant::now() is dt milliseconds later
Tick(dts, maxTicks) ==
    /\ Budget(maxTicks)
    /\ \E dt \in dts : clock' = clock + dt
    /\ UNCHANGED <<co_lock, pc, control, state, index, rcv, wcmd, wtodo, tx,
                   ctrl_chan, ctrl_changed, published, wq, rx, co_connection,
                   co_info, nextFrame, nextCmd, steps, pubs, last_sent, unseen,
                   skipped, collapsed, ingested, accepted, handled, dropped,
                   gui, unread, state_rx_open, ctrl_tx_open, form, bus_stats, calls, ret>>

\* self.bus_stats.on_message(cob_id, now)
OnMessage(ids, maxMessages) ==
    /\ bus_stats.total_messages < maxMessages
    /\ \E id \in ids :
         /\ bus_stats' = on_message(bus_stats, id, clock)
         /\ calls' = Append(calls, Call("on_message", id, clock, 0))
    /\ UNCHANGED <<co_lock, events, pc, control, state, index, rcv, wcmd, wtodo, tx,
                   ctrl_chan, ctrl_changed, published, wq, rx, co_connection,
                   co_info, nextFrame, nextCmd, steps, pubs, last_sent, unseen,
                   skipped, collapsed, ingested, accepted, handled, dropped,
                   gui, unread, state_rx_open, ctrl_tx_open, form, clock, ret>>

\* the number of update_load calls made so far: the history holds the
\* on_message and the update_load calls
LoadCount == Len(calls) - bus_stats.total_messages

\* self.bus_stats.update_load(avg)
UpdateLoad(loads, maxLoads) ==
    /\ LoadCount < maxLoads
    /\ \E v \in loads :
         /\ bus_stats' = update_load(bus_stats, v)
         /\ calls' = Append(calls, Call("update_load", 0, clock, v))
    /\ UNCHANGED <<co_lock, events, pc, control, state, index, rcv, wcmd, wtodo, tx,
                   ctrl_chan, ctrl_changed, published, wq, rx, co_connection,
                   co_info, nextFrame, nextCmd, steps, pubs, last_sent, unseen,
                   skipped, collapsed, ingested, accepted, handled, dropped,
                   gui, unread, state_rx_open, ctrl_tx_open, form, clock, ret>>

\* self.bus_stats.calculate_msg_rate()
CalculateMsgRate ==
    /\ bus_stats' = calculate_msg_rate(bus_stats, clock)
    /\ ret' = [op |-> "calculate_msg_rate",
               arg |-> [history |-> bus_stats.messages_history,
                        rate |-> bus_stats.current_msg_rate],
               val |-> bus_stats'.current_msg_rate]
    /\ UNCHANGED <<co_lock, events, pc, control, state, index, rcv, wcmd, wtodo, tx,
                   ctrl_chan, ctrl_changed, published, wq, rx, co_connection,
                   co_info, nextFrame, nextCmd, steps, pubs, last_sent, unseen,
                   skipped, collapsed, ingested, accepted, handled, dropped,
                   gui, unread, state_rx_open, ctrl_tx_open, form, clock, calls>>

\* self.bus_stats.calculate_cob_id_rates(Instant::now())
CalculateCobIdRates ==
    /\ bus_stats' = calculate_cob_id_rates(bus_stats, clock)
    /\ UNCHANGED <<co_lock, events, pc, control, state, index, rcv, wcmd, wtodo, tx,
                   ctrl_chan, ctrl_changed, published, wq, rx, co_connection,
                   co_info, nextFrame, nextCmd, steps, pubs, last_sent, unseen,
                   skipped, collapsed, ingested, accepted, handled, dropped,
                   gui, unread, state_rx_open, ctrl_tx_open, form, clock, calls, ret>>

\* self.bus_stats.get_top_cob_ids(n)
GetTopCobIds(maxTop) ==
    /\ \E n \in 0..maxTop :
         \E v \in get_top_cob_ids(bus_stats, n) :
             ret' = [op |-> "get_top_cob_ids", arg |-> n, val |-> v]
    /\ UNCHANGED <<co_lock, events, pc, control, state, index, rcv, wcmd, wtodo, tx,
                   ctrl_chan, ctrl_changed, published, wq, rx, co_connection,
                   co_info, nextFrame, nextCmd, steps, pubs, last_sent, unseen,
                   skipped, collapsed, ingested, accepted, handled, dropped,
                   gui, unread, state_rx_open, ctrl_tx_open, form, bus_stats, clock, calls>>

----------------------------------------------------------------------------
(* Driver::process: the race *)

\* rcv = self.co.rx.recv() => Some(rcv), with a frame
SelectFrame ==
    /\ pc = "select"
    /\ rx # <<>>
    /\ rcv' = RcvOk(Head(rx))
    /\ rx' = Tail(rx)
    /\ pc' = "check"
    /\ steps' = <<"frame">>
    /\ pubs' = 0
    /\ UNCHANGED <<co_lock, events, control, state, index, wcmd, wtodo, tx, ctrl_chan,
                   ctrl_changed, published, wq, co_connection, co_info,
                   nextFrame, nextCmd, last_sent, unseen, skipped, collapsed,
                   ingested, accepted, handled, dropped,
                   gui, unread, state_rx_open, ctrl_tx_open,
                   bus_stats, clock, calls, form, ret>>

\* rcv = self.co.rx.recv() => Some(rcv), with a receive error
SelectRecvErr ==
    /\ pc = "select"
    /\ rcv' = RcvErr
    /\ pc' = "check"
    /\ steps' = <<"recv_err">>
    /\ pubs' = 0
    /\ UNCHANGED <<co_lock, events, control, state, index, wcmd, wtodo, tx, ctrl_chan,
                   ctrl_changed, published, wq, rx, co_connection, co_info,
                   nextFrame, nextCmd, last_sent, unseen, skipped, collapsed,
                   ingested, accepted, handled, dropped,
                   gui, unread, state_rx_open, ctrl_tx_open,
                   bus_stats, clock, calls, form, ret>>

\* a race in which the timer takes the pending frame away with it
SelectTick_takingFrame ==
    /\ pc = "select"
    /\ rcv' = RcvNone
    /\ rx' = IF rx = <<>> THEN rx ELSE Tail(rx)
    /\ pc' = "check"
    /\ steps' = <<"tick">>
    /\ pubs' = 0
    /\ UNCHANGED <<co_lock, events, control, state, index, wcmd, wtodo, tx, ctrl_chan,
                   ctrl_changed, published, wq, co_connection, co_info,
                   nextFrame, nextCmd, last_sent, unseen, skipped, collapsed,
                   ingested, accepted, handled, dropped,
                   gui, unread, state_rx_open, ctrl_tx_open,
                   bus_stats, clock, calls, form, ret>>

\* a race whose timer is armed by a pending frame only
SelectTick_onTraffic ==
    /\ pc = "select"
    /\ rx # <<>>
    /\ rcv' = RcvNone
    /\ pc' = "check"
    /\ steps' = <<"tick">>
    /\ pubs' = 0
    /\ UNCHANGED <<co_lock, events, control, state, index, wcmd, wtodo, tx, ctrl_chan,
                   ctrl_changed, published, wq, rx, co_connection, co_info,
                   nextFrame, nextCmd, last_sent, unseen, skipped, collapsed,
                   ingested, accepted, handled, dropped,
                   gui, unread, state_rx_open, ctrl_tx_open,
                   bus_stats, clock, calls, form, ret>>

\* () = sleep(100 ms) => None
SelectTick ==
    /\ pc = "select"
    /\ rcv' = RcvNone
    /\ pc' = "check"
    /\ steps' = <<"tick">>
    /\ pubs' = 0
    /\ UNCHANGED <<co_lock, events, control, state, index, wcmd, wtodo, tx, ctrl_chan,
                   ctrl_changed, published, wq, rx, co_connection, co_info,
                   nextFrame, nextCmd, last_sent, unseen, skipped, collapsed,
                   ingested, accepted, handled, dropped,
                   gui, unread, state_rx_open, ctrl_tx_open,
                   bus_stats, clock, calls, form, ret>>

\* the ctrl_c branch without its return: the iteration goes on to the control
\* check
SelectCtrlC_fallthrough ==
    /\ pc = "select"
    /\ control' = [control EXCEPT !.command = "Kill"]
    /\ rcv' = RcvNone
    /\ pc' = "check"
    /\ steps' = <<"ctrl_c">>
    /\ pubs' = 0
    /\ UNCHANGED <<co_lock, events, state, index, wcmd, wtodo, tx, ctrl_chan,
                   ctrl_changed, published, wq, rx, co_connection, co_info,
                   nextFrame, nextCmd, last_sent, unseen, skipped, collapsed,
                   ingested, accepted, handled, dropped,
                   gui, unread, state_rx_open, ctrl_tx_open,
                   bus_stats, clock, calls, form, ret>>

\* _ = ctrl_c() => { self.control.command = Kill; return; }
SelectCtrlC ==
    /\ pc = "select"
    /\ control' = [control EXCEPT !.command = "Kill"]
    /\ pc' = "publish"
    /\ steps' = <<"ctrl_c">>
    /\ pubs' = 0
    /\ UNCHANGED <<co_lock, events, state, index, rcv, wcmd, wtodo, tx, ctrl_chan,
                   ctrl_changed, published, wq, rx, co_connection, co_info,
                   nextFrame, nextCmd, last_sent, unseen, skipped, collapsed,
                   ingested, accepted, handled, dropped,
                   gui, unread, state_rx_open, ctrl_tx_open,
                   bus_stats, clock, calls, form, ret>>

\* Some(write_cmd) = self.write_receiver.recv() => handle_write_command
SelectWrite ==
    /\ pc = "select"
    /\ wq # <<>>
    /\ wcmd' = Head(wq)
    /\ wq' = Tail(wq)
    /\ wtodo' = handle_write_command(Head(wq))
    /\ handled' = Append(handled, Head(wq).id)
    /\ pc' = "write"
    /\ steps' = <<"write">>
    /\ pubs' = 0
    /\ UNCHANGED <<co_lock, events, control, state, index, rcv, tx, ctrl_chan, ctrl_changed,
                   published, rx, co_connection, co_info, nextFrame, nextCmd,
                   last_sent, unseen, skipped, collapsed, ingested, accepted,
                   dropped,
                   gui, unread, state_rx_open, ctrl_tx_open,
                   bus_stats, clock, calls, form, ret>>

\* a handling that gives up its remaining attempts when one fails
WriteStep_abortOnFailure ==
    /\ pc = "write"
    /\ wtodo # <<>>
    /\ \E ok \in BOOLEAN :
         /\ tx' = Append(tx, [packet |-> Head(wtodo), ok |-> ok])
         /\ wtodo' = IF ok THEN Tail(wtodo) ELSE <<>>
    /\ steps' = Append(steps, "tx")
    /\ UNCHANGED <<co_lock, events, pc, control, state, index, rcv, wcmd, ctrl_chan,
                   ctrl_changed, published, wq, rx, co_connection, co_info,
                   nextFrame, nextCmd, pubs, last_sent, unseen, skipped,
                   collapsed, ingested, accepted, handled, dropped,
                   gui, unread, state_rx_open, ctrl_tx_open,
                   bus_stats, clock, calls, form, ret>>

\* a handling that sends a packet a second time when the port rejected it
WriteStep_retryOnce ==
    /\ pc = "write"
    /\ wtodo # <<>>
    /\ \E ok \in BOOLEAN :
         /\ tx' = Append(tx, [packet |-> Head(wtodo), ok |-> ok])
         /\ wtodo' = IF ok \/ (tx # <<>> /\ ~tx[Len(tx)].ok)
                     THEN Tail(wtodo) ELSE wtodo
    /\ steps' = Append(steps, "tx")
    /\ UNCHANGED <<co_lock, events, pc, control, state, index, rcv, wcmd, ctrl_chan,
                   ctrl_changed, published, wq, rx, co_connection, co_info,
                   nextFrame, nextCmd, pubs, last_sent, unseen, skipped,
                   collapsed, ingested, accepted, handled, dropped,
                   gui, unread, state_rx_open, ctrl_tx_open,
                   bus_stats, clock, calls, form, ret>>

\* a handling that drops its remaining attempts once a Kill is waiting on the
\* control channel
WriteStep_untilKill ==
    /\ pc = "write"
    /\ wtodo # <<>>
    /\ \E ok \in BOOLEAN :
         tx' = Append(tx, [packet |-> Head(wtodo), ok |-> ok])
    /\ wtodo' = IF ctrl_changed /\ ctrl_chan.command = "Kill"
                THEN <<>> ELSE Tail(wtodo)
    /\ steps' = Append(steps, "tx")
    /\ UNCHANGED <<co_lock, events, pc, control, state, index, rcv, wcmd, ctrl_chan,
                   ctrl_changed, published, wq, rx, co_connection, co_info,
                   nextFrame, nextCmd, pubs, last_sent, unseen, skipped,
                   collapsed, ingested, accepted, handled, dropped,
                   gui, unread, state_rx_open, ctrl_tx_open,
                   bus_stats, clock, calls, form, ret>>

\* one transmit attempt of handle_write_command: the port accepts the packet
\* or not, a failure is logged and the handling goes on
WriteStep ==
    /\ pc = "write"
    /\ wtodo # <<>>
    /\ \E ok \in BOOLEAN :
         tx' = Append(tx, [packet |-> Head(wtodo), ok |-> ok])
    /\ wtodo' = Tail(wtodo)
    /\ steps' = Append(steps, "tx")
    /\ UNCHANGED <<co_lock, events, pc, control, state, index, rcv, wcmd, ctrl_chan,
                   ctrl_changed, published, wq, rx, co_connection, co_info,
                   nextFrame, nextCmd, pubs, last_sent, unseen, skipped,
                   collapsed, ingested, accepted, handled, dropped,
                   gui, unread, state_rx_open, ctrl_tx_open,
                   bus_stats, clock, calls, form, ret>>

\* a handling that returns after its first transmit attempt at most
WriteDone_early ==
    /\ pc = "write"
    /\ rcv' = RcvNone
    /\ pc' = "check"
    /\ UNCHANGED <<co_lock, events, control, state, index, wcmd, wtodo, tx, ctrl_chan,
                   ctrl_changed, published, wq, rx, co_connection, co_info,
                   nextFrame, nextCmd, steps, pubs, last_sent, unseen,
                   skipped, collapsed, ingested, accepted, handled, dropped,
                   gui, unread, state_rx_open, ctrl_tx_open,
                   bus_stats, clock, calls, form, ret>>

\* handle_write_command returns; the select yields None
WriteDone ==
    /\ pc = "write"
    /\ wtodo = <<>>
    /\ rcv' = RcvNone
    /\ pc' = "check"
    /\ UNCHANGED <<co_lock, events, control, state, index, wcmd, wtodo, tx, ctrl_chan,
                   ctrl_changed, published, wq, rx, co_connection, co_info,
                   nextFrame, nextCmd, steps, pubs, last_sent, unseen,
                   skipped, collapsed, ingested, accepted, handled, dropped,
                   gui, unread, state_rx_open, ctrl_tx_open,
                   bus_stats, clock, calls, form, ret>>

----------------------------------------------------------------------------
(* Driver::process after the race *)

\* an adoption that takes the command and keeps the connection
ActiveControl_commandOnly(changed, chan, cur) ==
    IF changed THEN [cur EXCEPT !.command = chan.command] ELSE cur

\* if self.receiver.has_changed() { self.control = borrow_and_update() }
ActiveControl(changed, chan, cur) == IF changed THEN chan ELSE cur

\* self.co.connection.lock().await.clone_from(&self.control.connection),
\* inside the same if
LiveConnection(changed, ctl, cur) == IF changed THEN ctl.connection ELSE cur

\* a match whose early return covers Kill only
Ingests_unlessKill(ctl, r) == ctl.command # "Kill" /\ r.kind = "Ok"

\* match self.control.command { Stop | Kill => return, Process => {} };
\* let Some(Ok(d)) = rcv else { return }
Ingests(ctl, r) == ctl.command = "Process" /\ r.kind = "Ok"

RECURSIVE Evict(_)
\* while self.state.data.len() > MAX_MESSAGES_IN_STATE { pop_front() }
Evict(data) ==
    IF Len(data) > MAX_MESSAGES_IN_STATE THEN Evict(Tail(data)) ELSE data

\* the eviction loop, then self.state.data.push_back(d)
PushMessage(data, d) == Append(Evict(data), d)

\* self.receiver.has_changed() returns Ok: the sender is alive, or (in the
\* releases of tokio that look at the version first) a value is unseen
HasChangedOk(open, changed) == open \/ changed

\* self.receiver.has_changed() returns Err: the sender was dropped
HasChangedErr(open, changed) == ~open

\* a lock() that returns whoever holds the mutex
LockReady_unguarded(changed, holder) == TRUE

\* self.co.connection.lock().await is ready at once: the mutex is free (the
\* lock is taken only when a new Control was observed)
LockReady(changed, holder) == changed => holder = "none"

\* a control check that numbers every frame received, logged or not
Check_numberingReceived ==
    /\ pc = "check"
    /\ HasChangedOk(ctrl_tx_open, ctrl_changed)
    /\ LockReady(ctrl_changed, co_lock)
    /\ LET ctl == ActiveControl(ctrl_changed, ctrl_chan, control)
           ing == Ingests(ctl, rcv)
       IN  /\ control' = ctl
           /\ co_connection' = LiveConnection(ctrl_changed, ctl, co_connection)
           /\ state' = [state EXCEPT
                          !.info = co_info,
                          !.data = IF ing
                                   THEN PushMessage(@, MessageCached(index, rcv.frame))
                                   ELSE @]
           /\ index' = IF rcv.kind = "Ok" THEN index + 1 ELSE index
           /\ ingested' = IF ing THEN Append(ingested, rcv.frame) ELSE ingested
           /\ steps' = steps \o (IF ctrl_changed THEN <<"adopt">> ELSE <<>>)
                             \o <<"control", "info">>
                             \o (IF ing THEN <<"ingest">> ELSE <<>>)
    /\ ctrl_changed' = FALSE
    /\ collapsed' = IF ctrl_changed THEN skipped ELSE collapsed
    /\ unseen' = IF ctrl_changed THEN 0 ELSE unseen
    /\ skipped' = IF ctrl_changed THEN {} ELSE skipped
    /\ rcv' = RcvNone
    /\ pc' = "publish"
    /\ UNCHANGED <<co_lock, events, wcmd, wtodo, tx, ctrl_chan, published, wq, rx, co_info,
                   nextFrame, nextCmd, pubs, last_sent, accepted, handled,
                   dropped,
                   gui, unread, state_rx_open, ctrl_tx_open,
                   bus_stats, clock, calls, form, ret>>

\* the control check, the info refresh, the match on the command and the
\* ingestion of the frame, up to the return of process()
Check ==
    /\ pc = "check"
    /\ HasChangedOk(ctrl_tx_open, ctrl_changed)
    /\ LockReady(ctrl_changed, co_lock)
    /\ LET ctl == ActiveControl(ctrl_changed, ctrl_chan, control)
           ing == Ingests(ctl, rcv)
       IN  /\ control' = ctl
           /\ co_connection' = LiveConnection(ctrl_changed, ctl, co_connection)
           /\ state' = [state EXCEPT
                          !.info = co_info,
                          !.data = IF ing
                                   THEN PushMessage(@, MessageCached(index, rcv.frame))
                                   ELSE @]
           /\ index' = IF ing THEN index + 1 ELSE index
           /\ ingested' = IF ing THEN Append(ingested, rcv.frame) ELSE ingested
           /\ steps' = steps \o (IF ctrl_changed THEN <<"adopt">> ELSE <<>>)
                             \o <<"control", "info">>
                             \o (IF ing THEN <<"ingest">> ELSE <<>>)
    /\ ctrl_changed' = FALSE
    /\ collapsed' = IF ctrl_changed THEN skipped ELSE collapsed
    /\ unseen' = IF ctrl_changed THEN 0 ELSE unseen
    /\ skipped' = IF ctrl_changed THEN {} ELSE skipped
    /\ rcv' = RcvNone
    /\ pc' = "publish"
    /\ UNCHANGED <<co_lock, events, wcmd, wtodo, tx, ctrl_chan, published, wq, rx, co_info,
                   nextFrame, nextCmd, pubs, last_sent, accepted, handled,
                   dropped,
                   gui, unread, state_rx_open, ctrl_tx_open,
                   bus_stats, clock, calls, form, ret>>

\* the control check when the port holds the mutex of co.connection: the new
\* Control is adopted, then the task waits in lock().await
CheckAdopt ==
    /\ pc = "check"
    /\ HasChangedOk(ctrl_tx_open, ctrl_changed)
    /\ ctrl_changed
    /\ ~LockReady(ctrl_changed, co_lock)
    /\ control' = ActiveControl(ctrl_changed, ctrl_chan, control)
    /\ ctrl_changed' = FALSE
    /\ collapsed' = skipped
    /\ unseen' = 0
    /\ skipped' = {}
    /\ steps' = Append(steps, "adopt")
    /\ pc' = "lock"
    /\ UNCHANGED <<co_lock, events, state, index, rcv, wcmd, wtodo, tx,
                   ctrl_chan, published, wq, rx, co_connection, co_info,
                   nextFrame, nextCmd, pubs, last_sent, ingested, accepted,
                   handled, dropped,
                   gui, unread, state_rx_open, ctrl_tx_open,
                   bus_stats, clock, calls, form, ret>>

\* lock().await returns: the connection is written under the guard, which is
\* dropped at the end of the statement; then the info refresh, the match on
\* the command and the ingestion of the frame, up to the return of process()
CheckLocked ==
    /\ pc = "lock"
    /\ LockReady(TRUE, co_lock)
    /\ LET ing == Ingests(control, rcv)
       IN  /\ co_connection' = LiveConnection(TRUE, control, co_connection)
           /\ state' = [state EXCEPT
                          !.info = co_info,
                          !.data = IF ing
                                   THEN PushMessage(@, MessageCached(index, rcv.frame))
                                   ELSE @]
           /\ index' = IF ing THEN index + 1 ELSE index
           /\ ingested' = IF ing THEN Append(ingested, rcv.frame) ELSE ingested
           /\ steps' = steps \o <<"control", "info">>
                             \o (IF ing THEN <<"ingest">> ELSE <<>>)
    /\ rcv' = RcvNone
    /\ pc' = "publish"
    /\ UNCHANGED <<co_lock, events, control, wcmd, wtodo, tx, ctrl_chan,
                   ctrl_changed, published, wq, rx, co_info, nextFrame,
                   nextCmd, pubs, last_sent, unseen, skipped, collapsed,
                   accepted, handled, dropped,
                   gui, unread, state_rx_open, ctrl_tx_open,
                   bus_stats, clock, calls, form, ret>>

\* self.receiver.has_changed().unwrap() on Err: the driver task panics
CheckPanic ==
    /\ pc = "check"
    /\ HasChangedErr(ctrl_tx_open, ctrl_changed)
    /\ pc' = "panic"
    /\ steps' = Append(steps, "panic")
    /\ UNCHANGED <<co_lock, events, control, state, index, rcv, wcmd, wtodo, tx,
                   ctrl_chan, ctrl_changed, published, wq, rx, co_connection,
                   co_info, nextFrame, nextCmd, pubs, last_sent, unseen,
                   skipped, collapsed, ingested, accepted, handled, dropped,
                   gui, unread, state_rx_open, ctrl_tx_open,
                   bus_stats, clock, calls, form, ret>>

----------------------------------------------------------------------------
(* Driver::run: publish, then leave on Kill *)

\* an exit flag that is never raised
ExitSignal_never(ctl, cur) == cur

\* an exit flag that is raised under Stop as well
ExitSignal_whenNotProcess(ctl, cur) ==
    IF ctl.command \in {"Kill", "Stop"} THEN TRUE ELSE cur

\* if self.control.command == Kill { self.state.exit_signal = true }
ExitSignal(ctl, cur) == IF ctl.command = "Kill" THEN TRUE ELSE cur

\* a loop without its break
Breaks_never(ctl) == FALSE

\* if self.control.command == Kill { break }
Breaks(ctl) == ctl.command = "Kill"

\* a run() that publishes only while the command is Process or Kill
Publish_unlessStopped ==
    /\ pc = "publish"
    /\ state_rx_open
    /\ state' = [state EXCEPT !.exit_signal = ExitSignal(control, @)]
    /\ IF control.command = "Stop"
       THEN UNCHANGED <<published, pubs>>
       ELSE published' = state' /\ pubs' = pubs + 1
    /\ unread' = TRUE
    /\ IF Breaks(control)
       THEN /\ pc' = "done"
            /\ steps' = Append(steps, "publish")
            /\ UNCHANGED << wcmd, tx, collapsed >>
       ELSE /\ pc' = "select"
            /\ steps' = <<>>
            /\ wcmd' = NoCmd
            /\ tx' = <<>>
            /\ collapsed' = {}
    /\ UNCHANGED <<co_lock, events, control, index, rcv, wtodo, ctrl_chan, ctrl_changed,
                   wq, rx, co_connection, co_info, nextFrame, nextCmd,
                   last_sent, unseen, skipped, ingested, accepted, handled,
                   dropped,
                   gui, state_rx_open, ctrl_tx_open,
                   bus_stats, clock, calls, form, ret>>

\* a publish that waits until the consumer has read the State published
\* before
Publish_rendezvous ==
    /\ pc = "publish"
    /\ state_rx_open
    /\ ~unread
    /\ state' = [state EXCEPT !.exit_signal = ExitSignal(control, @)]
    /\ published' = state'
    /\ pubs' = pubs + 1
    /\ unread' = TRUE
    /\ IF Breaks(control)
       THEN /\ pc' = "done"
            /\ steps' = Append(steps, "publish")
            /\ UNCHANGED << wcmd, tx, collapsed >>
       ELSE /\ pc' = "select"
            /\ steps' = <<>>
            /\ wcmd' = NoCmd
            /\ tx' = <<>>
            /\ collapsed' = {}
    /\ UNCHANGED <<co_lock, events, control, index, rcv, wtodo, ctrl_chan, ctrl_changed,
                   wq, rx, co_connection, co_info, nextFrame, nextCmd,
                   last_sent, unseen, skipped, ingested, accepted, handled,
                   dropped, gui, state_rx_open, ctrl_tx_open,
                   bus_stats, clock, calls, form, ret>>

\* self.sender.send(self.state.clone()), around it the two tests of Kill;
\* the record of the iteration is cleared when the loop goes on
Publish ==
    /\ pc = "publish"
    /\ state_rx_open
    /\ state' = [state EXCEPT !.exit_signal = ExitSignal(control, @)]
    /\ published' = state'
    /\ pubs' = pubs + 1
    /\ unread' = TRUE
    /\ IF Breaks(control)
       THEN /\ pc' = "done"
            /\ steps' = Append(steps, "publish")
            /\ UNCHANGED << wcmd, tx, collapsed >>
       ELSE /\ pc' = "select"
            /\ steps' = <<>>
            /\ wcmd' = NoCmd
            /\ tx' = <<>>
            /\ collapsed' = {}
    /\ UNCHANGED <<co_lock, events, control, index, rcv, wtodo, ctrl_chan, ctrl_changed, wq,
                   rx, co_connection, co_info, nextFrame, nextCmd, last_sent,
                   unseen, skipped, ingested, accepted, handled, dropped,
                   gui, state_rx_open, ctrl_tx_open,
                   bus_stats, clock, calls, form, ret>>

\* a run() that ignores the error of the send and goes on
PublishPanic_ignored ==
    /\ pc = "publish"
    /\ ~state_rx_open
    /\ state' = [state EXCEPT !.exit_signal = ExitSignal(control, @)]
    /\ pc' = IF Breaks(control) THEN "done" ELSE "select"
    /\ steps' = <<>>
    /\ UNCHANGED <<co_lock, events, control, index, rcv, wcmd, wtodo, tx, ctrl_chan,
                   ctrl_changed, published, wq, rx, co_connection, co_info,
                   nextFrame, nextCmd, pubs, last_sent, unseen, skipped,
                   collapsed, ingested, accepted, handled, dropped, gui,
                   unread, state_rx_open, ctrl_tx_open,
                   bus_stats, clock, calls, form, ret>>

\* self.sender.send(..).unwrap() when every receiver is gone: the send
\* returns Err without storing the value and the driver task panics; the
\* exit signal was set before the send
PublishPanic ==
    /\ pc = "publish"
    /\ ~state_rx_open
    /\ state' = [state EXCEPT !.exit_signal = ExitSignal(control, @)]
    /\ pc' = "panic"
    /\ steps' = Append(steps, "panic")
    /\ UNCHANGED <<co_lock, events, control, index, rcv, wcmd, wtodo, tx, ctrl_chan,
                   ctrl_changed, published, wq, rx, co_connection, co_info,
                   nextFrame, nextCmd, pubs, last_sent, unseen, skipped,
                   collapsed, ingested, accepted, handled, dropped, gui,
                   unread, state_rx_open, ctrl_tx_open,
                   bus_stats, clock, calls, form, ret>>

----------------------------------------------------------------------------
(* The specifications *)

Next ==
    \/ BusFrame(MaxFrames, MaxEvents)
    \/ PortInfo
    \/ send_driver_control
    \/ SendKill
    \/ EnqueueWrite(WriteInputs)
    \/ SelectFrame
    \/ SelectRecvErr
    \/ SelectTick
    \/ SelectCtrlC
    \/ SelectWrite
    \/ WriteStep
    \/ WriteDone
    \/ Check
    \/ Publish

Spec == Init /\ [][Next]_vars

\* A long run of frames under a quiet environment: the log passes its capacity
NextLog ==
    \/ BusFrame(MaxLogFrames, MaxLogFrames)
    \/ SelectFrame
    \/ SelectTick
    \/ Check
    \/ Publish

SpecLog == Init /\ [][NextLog]_vars

\* The consumer reads the State channel at its own pace while frames arrive
\* and the shutdown is requested
NextGui ==
    \/ BusFrame(MaxFrames, MaxEvents)
    \/ PortInfo
    \/ SendKill
    \/ get_data_from_driver
    \/ SelectFrame
    \/ SelectTick
    \/ Check
    \/ Publish

SpecGui == Init /\ [][NextGui]_vars

\* the panel enqueues one of the commands it can build
PanelWrite == nextCmd <= MaxPanelWrites /\ EnqueueWrite(PanelInputs)

\* The write path alone: every command of the panel, handled by the driver
NextWrite ==
    \/ PanelWrite
    \/ SelectTick
    \/ SelectWrite
    \/ WriteStep
    \/ WriteDone
    \/ Check
    \/ Publish

SpecWrite == Init /\ [][NextWrite]_vars

\* The EMCY form and the driver. WriteStep is absent: the handling of a
\* SendEmcy has no transmit attempt to make.
NextEmcy ==
    \/ show_emcy_ui
    \/ SelectTick
    \/ SelectWrite
    \/ WriteDone
    \/ Check
    \/ Publish

SpecEmcy == Init /\ [][NextEmcy]_vars

\* The channels can close under the running driver
NextFault ==
    \/ BusFrame(MaxFrames, MaxEvents)
    \/ send_driver_control
    \/ EnqueueWrite(WriteInputs)
    \/ DropStateReceiver
    \/ DropControlSender
    \/ SelectFrame
    \/ SelectRecvErr
    \/ SelectTick
    \/ SelectWrite
    \/ WriteStep
    \/ WriteDone
    \/ Check
    \/ CheckPanic
    \/ Publish
    \/ PublishPanic

SpecFault == Init /\ [][NextFault]_vars

\* The message sender panel alone: its fields are edited and its buttons
\* clicked; the commands stay in the write queue
NextPanel ==
    \/ EditText
    \/ show_nmt_ui
    \/ show_pdo_ui
    \/ show_raw_ui
    \/ show_sdo_ui
    \/ show_pdo_config_ui

SpecPanel == Init /\ [][NextPanel]_vars

\* parse_hex_data alone, on every text of the data field
NextHex ==
    \/ ClearData
    \/ TypeData
    \/ CallParseHexData

SpecHex == Init /\ [][NextHex]_vars

\* the steps of the clock in milliseconds while the gaps are observed
GapTicks == {1, 1000, 4000}

\* The engine counting the messages of one identifier as time passes
NextGap ==
    \/ Tick(GapTicks, MaxGapTicks)
    \/ OnMessage({384}, MaxGapMessages)

SpecGap == Init /\ [][NextGap]_vars

\* a load is reported after every WindowLoadEvery messages
WindowLoadEvery == 9

LoadsDue == bus_stats.total_messages \div WindowLoadEvery

\* the first load reported; each later one follows from the one before
FirstLoads == {40, 100}

NextLoad(v) == (7 * v + 3) % 101

\* a long run of the engine: a message, a step of the clock of 1000 to 1002
\* milliseconds, the next message, and a load after every ninth message
WindowMessage ==
    /\ bus_stats.total_messages = events
    /\ OnMessage({384}, MaxWindowMessages)

WindowLoad ==
    UpdateLoad(IF LoadCount = 0 THEN FirstLoads
               ELSE {NextLoad(bus_stats.current_load)}, LoadsDue)

WindowTick ==
    /\ events < bus_stats.total_messages
    /\ LoadCount = LoadsDue
    /\ Tick({1000 + (bus_stats.total_messages % 3)}, MaxWindowMessages)

\* the engine does not depend on the Control the driver starts with
InitWindow == Init /\ control = [command |-> "Stop", connection |-> "can1"]

NextWindow ==
    \/ WindowMessage
    \/ WindowLoad
    \/ WindowTick

SpecWindow == InitWindow /\ [][NextWindow]_vars

\* the steps of the clock in milliseconds while the rate is computed
RateTicks == {1000}

\* the Gui computes the rate in every frame it draws: the clock moves on
\* once the rate of the present window has been computed
RateTick ==
    /\ ret.op = "calculate_msg_rate"
    /\ ret.arg.history = bus_stats.messages_history
    /\ Tick(RateTicks, MaxRateTicks)

\* The engine counting messages and computing their rate as time passes
NextRate ==
    \/ RateTick
    \/ OnMessage({384}, MaxRateMessages)
    \/ CalculateMsgRate

SpecRate == InitWindow /\ [][NextRate]_vars

\* the steps of the clock in milliseconds and the identifiers on the bus
\* while the rates per identifier are computed
IdTicks == {1, 1000}

CobIds == {384, 385}

\* the statistics panel asks for the most frequent identifiers last
IdsTick == ret = NoRet /\ Tick(IdTicks, MaxIdTicks)

IdsMessage == ret = NoRet /\ OnMessage(CobIds, MaxIdMessages)

IdsRates == ret = NoRet /\ CalculateCobIdRates

\* The engine counting the messages of each identifier and ranking them
NextIds ==
    \/ IdsTick
    \/ IdsMessage
    \/ IdsRates
    \/ GetTopCobIds(MaxTop)

SpecIds == InitWindow /\ [][NextIds]_vars

\* The silent bus: no frame arrives and no command is enqueued, the consumer
\* sends Control values; the sleep of the race always elapses and the driver
\* task is always scheduled again
NextSilence ==
    \/ send_driver_control
    \/ SendKill
    \/ SelectTick
    \/ Check
    \/ Publish

SpecSilence ==
    /\ Init
    /\ [][NextSilence]_vars
    /\ WF_vars(SelectTick)
    /\ WF_vars(Check)
    /\ WF_vars(Publish)

\* The port takes and releases the mutex of its connection descriptor while
\* the consumer sends Control values and the shutdown signal can fire
NextConn ==
    \/ BusFrame(MaxFrames, MaxEvents)
    \/ send_driver_control
    \/ SendKill
    \/ PortLock
    \/ PortUnlock
    \/ SelectFrame
    \/ SelectTick
    \/ SelectCtrlC
    \/ Check
    \/ CheckAdopt
    \/ CheckLocked
    \/ Publish

SpecConn == Init /\ [][NextConn]_vars

\* the gaps between two messages, in milliseconds, while the mean gap is
\* observed
AvgTicks == {10, 20, 30, 1001}

\* a message, a step of the clock, the next message
AvgMessage ==
    /\ bus_stats.total_messages = events
    /\ OnMessage({384}, MaxAvgMessages)

AvgTick ==
    /\ events < bus_stats.total_messages
    /\ Tick(AvgTicks, MaxAvgMessages)

NextAvg ==
    \/ AvgMessage
    \/ AvgTick

SpecAvg == InitWindow /\ [][NextAvg]_vars

\* the panel asks for the configuration of TPDO1 of node 1
MacroWrite ==
    nextCmd <= MaxPanelWrites /\ EnqueueWrite({ConfigureTpdo1Statusword(1)})

\* The configuration macro is handled while frames arrive, the Kill is sent
\* and the shutdown signal can fire
NextMacro ==
    \/ MacroWrite
    \/ BusFrame(MaxFrames, MaxEvents)
    \/ SendKill
    \/ SelectFrame
    \/ SelectTick
    \/ SelectCtrlC
    \/ SelectWrite
    \/ WriteStep
    \/ WriteDone
    \/ Check
    \/ Publish

SpecMacro == Init /\ [][NextMacro]_vars

----------------------------------------------------------------------------
(* Properties *)

Range(f) == {f[i] : i \in DOMAIN f}

\* the step is one of the driver task leaving the position p
DriverStepFrom(p) == pc = p /\ pc' # p

\* an iteration is in progress: the race is resolved, the publish is to come
InIteration == pc \in {"write", "check", "publish"}

\* C1: in every reachable state the message log state.data holds at most 512
\* entries, and so does the log of every published State
C1_LogWithinCapacity ==
    /\ Len(state.data) <= MAX_MESSAGES_IN_STATE
    /\ Len(published.data) <= MAX_MESSAGES_IN_STATE

\* C2: once more than 512 frames are ingested the log holds exactly the 512
\* frames ingested last, oldest first, with strictly increasing indices
C2_LogHoldsLast512 ==
    Len(ingested) > MAX_MESSAGES_IN_STATE =>
        /\ Len(state.data) = MAX_MESSAGES_IN_STATE
        /\ \A i \in 1..MAX_MESSAGES_IN_STATE :
             i <= Len(state.data) =>
               state.data[i].msg
                 = ingested[Len(ingested) - MAX_MESSAGES_IN_STATE + i]
        /\ \A i \in 1..(Len(state.data) - 1) :
             state.data[i].index < state.data[i + 1].index

\* C3: when the control check observes Kill on the control channel, nothing
\* is appended to the log in that iteration or later, the next publish
\* carries exit_signal = TRUE and is the full state, and the loop ends right
\* after that publish
C3_KillTerminates ==
    /\ [][(DriverStepFrom("check") /\ ctrl_changed /\ ctrl_chan.command = "Kill")
            => /\ control'.command = "Kill"
               /\ pc' = "publish"
               /\ state'.data = state.data
               /\ index' = index]_vars
    /\ [][(DriverStepFrom("publish") /\ control.command = "Kill")
            => /\ published'.exit_signal
               /\ published' = state'
               /\ pc' = "done"]_vars
    /\ [][control.command = "Kill"
            => /\ control' = control
               /\ state'.data = state.data
               /\ index' = index
               /\ ingested' = ingested]_vars
    /\ [][published' # published => DriverStepFrom("publish")]_vars

\* a Kill adopted in an iteration won by a frame, after an earlier frame was
\* ingested: the second frame is not in the log and the loop has ended
C3_Witness ==
    /\ pc = "done"
    /\ steps = <<"frame", "adopt", "control", "info", "publish">>
    /\ published.exit_signal
    /\ Len(state.data) = 1
    /\ nextFrame = 3

\* C4: an iteration whose active command after the control check is Stop or
\* Kill leaves the log and the next sequence index as they were, also when a
\* frame won the race
C4_StopKillIngestNothing ==
    [][(DriverStepFrom("check") /\ control'.command \in {"Stop", "Kill"})
         => /\ state'.data = state.data
            /\ index' = index
            /\ ingested' = ingested]_vars

\* a frame won the race and Stop is the active command after the check
C4_Witness ==
    /\ pc = "publish"
    /\ steps[1] = "frame"
    /\ control.command = "Stop"
    /\ state.data = <<>>

\* C5: every iteration, whatever won the race and whatever the command, ends
\* with exactly one publish, of the full State
C5_OnePublishPerIteration ==
    /\ [](InIteration => pubs = 0)
    /\ [](pc = "done" => pubs = 1)
    /\ [][(InIteration /\ pc' \in {"select", "done"})
            => pubs' = 1 /\ published' = state']_vars
    /\ [][(published' # published \/ pubs' > pubs)
            => DriverStepFrom("publish") /\ pubs' = pubs + 1]_vars
    /\ [][DriverStepFrom("select") => InIteration' /\ pubs' = 0]_vars

\* an iteration won by a write command, under Stop, has ended with its publish
C5_Witness ==
    /\ pc = "select"
    /\ pubs = 1
    /\ control.command = "Stop"
    /\ handled # <<>>
    /\ published = state
    /\ published.info = 1

\* C6: when the shutdown signal wins the race the command becomes Kill
\* whatever it was, the control check, the info refresh and the ingestion
\* are skipped, the State published has exit_signal = TRUE and the loop ends
C6_ShutdownSignal ==
    /\ [][(DriverStepFrom("select") /\ steps'[1] = "ctrl_c")
            => /\ control' = [control EXCEPT !.command = "Kill"]
               /\ pc' = "publish"
               /\ UNCHANGED <<state, index, ingested, rx, wq, ctrl_chan,
                              ctrl_changed, unseen, co_connection, published>>]_vars
    /\ [][(InIteration /\ steps[1] = "ctrl_c")
            => \/ UNCHANGED driverVars
               \/ /\ pc = "publish" /\ pc' = "done"
                  /\ state' = [state EXCEPT !.exit_signal = TRUE]
                  /\ published' = state'
                  /\ steps' = <<"ctrl_c", "publish">>
                  /\ UNCHANGED <<control, index, ingested, co_connection>>]_vars

\* the signal won while a frame and an unobserved Control were waiting: both
\* are still waiting after the loop has ended
C6_Witness ==
    /\ pc = "done"
    /\ steps = <<"ctrl_c", "publish">>
    /\ published.exit_signal
    /\ ctrl_changed /\ ctrl_chan.command = "Stop"
    /\ rx # <<>>
    /\ co_info # state.info

C8_LatestControlOnly ==
    /\ [](ctrl_changed <=> unseen > 0)
    /\ [][DriverStepFrom("check")
            => IF unseen > 0
               THEN /\ control' = last_sent
                    /\ co_connection' = last_sent.connection
                    /\ ~ctrl_changed' /\ unseen' = 0
               ELSE /\ control' = control
                    /\ co_connection' = co_connection]_vars
    /\ [][control' # control
            => \/ DriverStepFrom("check") /\ unseen > 0
               \/ DriverStepFrom("select") /\ steps'[1] = "ctrl_c"]_vars

\* a Kill was sent, then overwritten by Process on another connection before
\* the driver looked: Process is active and the loop goes on
C8_Witness ==
    /\ pc = "publish"
    /\ "Kill" \in collapsed
    /\ control.command = "Process"
    /\ control.connection = "can1" /\ co_connection = "can1"
    /\ ~state.exit_signal

\* C9: the driver dequeues the accepted commands in the order of their
\* acceptance, each once and none passed over, and the handling of a command
\* has made all its transmit attempts before the control check, the info
\* refresh and the publish of the iteration
C9_WriteHandledOnceInOrder ==
    /\ [](accepted = handled \o [i \in 1..Len(wq) |-> wq[i].id])
    /\ []((pc \in {"check", "publish"} /\ steps # <<>> /\ steps[1] = "write")
            => /\ wtodo = <<>>
               /\ [i \in 1..Len(tx) |-> tx[i].packet] = handle_write_command(wcmd)
               /\ wcmd.id = handled[Len(handled)])
    /\ [](\A i, j \in 1..Len(steps) :
            (i < j /\ steps[i] \in {"adopt", "control", "info", "publish"})
              => steps[j] # "tx")
    /\ [][handled' # handled
            => /\ DriverStepFrom("select") /\ pc' = "write"
               /\ handled' = Append(handled, Head(wq).id)
               /\ wq' = Tail(wq)]_vars

\* two commands were in the queue together and both are handled, the second
\* one with its transmit attempt made before the control check
C9_Witness ==
    /\ pc = "check"
    /\ steps = <<"write", "tx">>
    /\ handled = <<1, 2>>
    /\ accepted = <<1, 2, 3>>
    /\ Len(tx) = 1

\* C10: an enqueue attempt on a full queue returns at once, changes neither
\* the queue nor the driver, and its command is never handled
C10_FullQueueDrops ==
    /\ [][(nextCmd' # nextCmd /\ Len(wq) = WriteQueueCap)
            => /\ wq' = wq
               /\ accepted' = accepted
               /\ dropped' = dropped \cup {nextCmd}
               /\ UNCHANGED driverVars]_vars
    /\ [](\A id \in dropped :
            /\ id \notin Range(handled)
            /\ id \notin Range(accepted)
            /\ \A i \in 1..Len(wq) : wq[i].id # id)
    /\ []((Len(wq) = WriteQueueCap /\ nextCmd <= MaxWrites /\ events < MaxEvents)
            => ENABLED EnqueueWrite(WriteInputs))

\* an attempt failed on the full queue; the driver has since emptied the
\* queue and handled what was in it, not the dropped command
C10_Witness ==
    /\ dropped = {3}
    /\ wq = <<>>
    /\ handled = <<1, 2>>
    /\ pc = "select"

\* C11: the publish is never held back by the consumer (it is enabled at its
\* position whether or not the State published before was read, and no read
\* changes the driver), a read returns the State the channel holds at that
\* moment whatever was published and not read in between, and once the loop
\* has ended the channel holds for good the last State of the driver
C11_PublishNeverBlocks ==
    /\ []((pc = "publish" /\ state_rx_open) => ENABLED Publish)
    /\ [][gui' # gui
            => /\ gui'.borrowed = published
               /\ gui'.info = published.info
               /\ gui'.exit = published.exit_signal
               /\ ~unread'
               /\ UNCHANGED driverVars]_vars
    /\ [][DriverStepFrom("publish") => published' = state' /\ unread']_vars
    /\ []((pc = "done" /\ gui.reads > 0 /\ ~unread) => gui.borrowed = state)

\* the first read of the consumer came after the loop had ended on two
\* ingested frames: the States published with no frame and with one frame
\* were never read, the read returns the last one with both frames
C11_Witness ==
    /\ pc = "done"
    /\ gui.reads = 1
    /\ ~unread
    /\ Len(gui.borrowed.data) = 2
    /\ gui.borrowed = state
    /\ gui.exit

\* the handling of a command of one of the given types has returned
Handled(types) == pc \in {"check", "publish"} /\ wcmd.type \in types

\* the packets handed to the transmitter for the command being handled
Packets == [i \in 1..Len(tx) |-> tx[i].packet]

\* C12: an SDO download with 1 to 4 data bytes hands one frame to the
\* transmitter: identifier 0x600 + node, 8 bytes of payload made of the
\* command byte 0x23 + 4 * (4 - len), the index low byte first, the
\* subindex, the data, then zeros; node 1, 0x6040:00, data 06 00 gives 0x601
\* and 2B 40 60 00 06 00 00 00
C12_SdoExpeditedEncoding ==
    (Handled({"SendSdoDownload"}) /\ Len(wcmd.data) \in 1..4)
      => /\ Len(tx) = 1
         /\ tx[1].packet.cob_id = 1536 + wcmd.node_id
         /\ Len(tx[1].packet.data) = 8
         /\ tx[1].packet.data
              = <<35 + 4 * (4 - Len(wcmd.data)),
                  wcmd.index % 256, wcmd.index \div 256, wcmd.subindex>>
                \o wcmd.data
                \o [i \in 1..(4 - Len(wcmd.data)) |-> 0]
         /\ ([wcmd EXCEPT !.id = 0] = SendSdoDownload(1, 24640, 0, <<6, 0>>)
               => /\ tx[1].packet.cob_id = 1537
                  /\ tx[1].packet.data = <<43, 64, 96, 0, 6, 0, 0, 0>>)

\* the download of 06 00 to 0x6040:00 of node 1 was handed to the port
C12_Witness ==
    /\ Handled({"SendSdoDownload"})
    /\ wcmd.node_id = 1
    /\ Len(tx) = 1
    /\ tx[1].packet.cob_id = 1537
    /\ tx[1].packet.data = <<43, 64, 96, 0, 6, 0, 0, 0>>

\* an SDO download with more than 4 data bytes is being handled, or its
\* handling has returned
Oversized ==
    /\ pc \in {"write", "check", "publish"}
    /\ wcmd.type = "SendSdoDownload"
    /\ Len(wcmd.data) > 4

\* C13: an SDO download with more than 4 data bytes hands nothing to the
\* transmitter, its handling changes neither the State, the index, the
\* Control nor the queues, and the iteration goes on to its control check
\* and its publish like any other
C13_OversizedSdoRejected ==
    /\ [](Oversized => tx = <<>> /\ wtodo = <<>>)
    /\ [][(Oversized /\ pc = "write" /\ pc' # pc)
            => /\ pc' = "check"
               /\ UNCHANGED <<control, state, index, published, wq, rx,
                              ingested, handled, co_connection>>]_vars
    /\ []((Oversized /\ pc = "write") => ENABLED WriteDone)
    /\ []((Oversized /\ pc = "check") => ENABLED Check)
    /\ []((Oversized /\ pc = "publish") => ENABLED Publish)
    /\ [][(Oversized /\ pc = "publish" /\ pc' # pc /\ control.command # "Kill")
            => pc' = "select" /\ published' = state']_vars

\* the handling of a download of 5 bytes has returned and the control check
\* is done: nothing was sent, the publish comes next
C13_Witness ==
    /\ Oversized
    /\ pc = "publish"
    /\ Len(wcmd.data) = 5
    /\ tx = <<>>
    /\ handled = <<1>>

\* an expedited download frame to node n, written out byte by byte
SdoFrame(n, payload) ==
    [kind |-> "sdo", cob_id |-> 1536 + n, data |-> payload, nmt |-> ""]

\* an NMT command to node n
NmtFrame(command, n) ==
    [kind |-> "nmt", cob_id |-> 0, data |-> <<n>>, nmt |-> command]

\* the eight frames of the TPDO1 configuration of node n: 0x1800 is 00 18,
\* 0x1A00 is 00 1A, 0x60410020 is 20 00 41 60, 0x180 + n is written low byte
\* first, bit 31 is the 0x80 of the last byte
MacroFrames(n) ==
    <<NmtFrame("EnterPreOperational", n),
      SdoFrame(n, <<35, 0, 24, 1, (384 + n) % 256, (384 + n) \div 256, 0, 128>>),
      SdoFrame(n, <<47, 0, 26, 0, 0, 0, 0, 0>>),
      SdoFrame(n, <<35, 0, 26, 1, 32, 0, 65, 96>>),
      SdoFrame(n, <<47, 0, 26, 0, 1, 0, 0, 0>>),
      SdoFrame(n, <<35, 0, 24, 1, (384 + n) % 256, (384 + n) \div 256, 0, 0>>),
      NmtFrame("StartRemoteNode", n),
      SdoFrame(n, <<47, 0, 24, 2, 1, 0, 0, 0>>)>>

\* C14: the handling of ConfigureTpdo1Statusword{node} makes exactly eight
\* transmit attempts, in the order NMT Enter-Pre-Operational, 0x1800:01 with
\* bit 31 set, 0x1A00:00 = 0, 0x1A00:01 = 0x60410020, 0x1A00:00 = 1,
\* 0x1800:01 with bit 31 clear, NMT Start-Remote-Node, 0x1800:02 = 1; at
\* every moment of the handling the attempts made and those to come are
\* these eight, so none of the six downloads is rejected
C14_MacroEightSteps ==
    (pc \in {"write", "check", "publish"}
       /\ wcmd.type = "ConfigureTpdo1Statusword")
      => /\ Packets \o wtodo = MacroFrames(wcmd.node_id)
         /\ Len(Packets \o wtodo) = 8
         /\ Cardinality({i \in 1..Len(Packets \o wtodo) :
                           (Packets \o wtodo)[i].kind = "sdo"}) = 6
         /\ (pc # "write" => Len(tx) = 8 /\ wtodo = <<>>)

\* the configuration of node 255 has made its eight attempts; the second
\* one carried 0x8000027F
C14_Witness ==
    /\ Handled({"ConfigureTpdo1Statusword"})
    /\ wcmd.node_id = 255
    /\ Len(tx) = 8
    /\ tx[2].packet.data = <<35, 0, 24, 1, 127, 2, 0, 128>>
    /\ tx[8].packet.data = <<47, 0, 24, 2, 1, 0, 0, 0>>

\* the configuration macro is being handled, or its handling has returned
InMacro ==
    /\ pc \in {"write", "check", "publish"}
    /\ wcmd.type = "ConfigureTpdo1Statusword"

\* C15: in the configuration macro an attempt that fails changes nothing but
\* its record: the next step is attempted with the packet that was due,
\* whatever the outcomes so far; when the handling returns all eight were
\* attempted in their order, and the iteration goes on to its control check
\* and its publish, after which the loop selects again
C15_MacroBestEffort ==
    /\ [][(InMacro /\ pc = "write" /\ tx' # tx)
            => /\ wtodo # <<>>
               /\ \E ok \in BOOLEAN :
                    tx' = Append(tx, [packet |-> Head(wtodo), ok |-> ok])
               /\ wtodo' = Tail(wtodo)
               /\ pc' = "write"
               /\ UNCHANGED <<control, state, index, published, wq, wcmd>>]_vars
    /\ []((InMacro /\ pc = "write")
            => IF wtodo # <<>> THEN ENABLED WriteStep ELSE ENABLED WriteDone)
    /\ []((InMacro /\ pc = "write" /\ wtodo = <<>>) => Len(tx) = 8)
    /\ []((InMacro /\ pc # "write")
            => /\ Len(tx) = 8
               /\ Packets = handle_write_command(wcmd))
    /\ []((InMacro /\ pc = "check") => ENABLED Check)
    /\ []((InMacro /\ pc = "publish") => ENABLED Publish)
    /\ [][(InMacro /\ pc = "publish" /\ pc' # pc /\ control.command # "Kill")
            => pc' = "select"]_vars

\* the first, fourth, sixth and eighth attempts failed, the others succeeded:
\* all eight were made and the publish of the iteration is next
C15_Witness ==
    /\ InMacro
    /\ pc = "publish"
    /\ Len(tx) = 8
    /\ [i \in 1..8 |-> tx[i].ok]
         = <<FALSE, TRUE, TRUE, FALSE, TRUE, FALSE, TRUE, FALSE>>
    /\ Packets = MacroFrames(wcmd.node_id)

\* C16: the frame handed to the transmitter for SendRaw{id, data} or
\* SendPdo{id, data} carries the identifier and the payload of the command
\* as they are, and SendPdo gives the same frame as SendRaw for the same id
\* and data
C16_RawPdoPassThrough ==
    Handled({"SendRaw", "SendPdo"})
      => /\ Len(tx) = 1
         /\ tx[1].packet.cob_id = wcmd.cob_id
         /\ tx[1].packet.data = wcmd.data
         /\ handle_write_command(SendPdo(wcmd.cob_id, wcmd.data))
              = handle_write_command(SendRaw(wcmd.cob_id, wcmd.data))

\* C17: a SendEmcy{node, code, register, data[5]} the producer enqueued is
\* handled as one frame with identifier 0x080 + node and payload code low
\* byte, code high byte, register, the 5 manufacturer bytes; no SendEmcy
\* with other than 5 manufacturer bytes is ever in the queue
C17_EmcyFrame ==
    /\ \A i \in 1..Len(wq) : wq[i].type = "SendEmcy" => Len(wq[i].data) = 5
    /\ Handled({"SendEmcy"})
         => /\ Len(wcmd.data) = 5
            /\ Len(tx) = 1
            /\ tx[1].packet.cob_id = 128 + wcmd.node_id
            /\ tx[1].packet.data
                 = <<wcmd.error_code % 256, wcmd.error_code \div 256,
                     wcmd.error_register>> \o wcmd.data

\* a command with a single frame is being handled, or its handling has
\* returned
SingleSend ==
    /\ pc \in {"write", "check", "publish"}
    /\ wcmd.type \in {"SendSync", "SendNmt", "SendRaw", "SendPdo",
                      "SendSdoDownload"}
    /\ Len(handle_write_command(wcmd)) = 1

\* C18: for SendSync, SendNmt, SendRaw, SendPdo and SendSdoDownload exactly
\* one transmit attempt is made, also when the port rejects it: the attempt
\* changes neither the log, the index, the Control nor the queue, nothing is
\* left to send after it, no command is dequeued twice, and the iteration
\* goes on to its control check, its publish and the next select
C18_SendFailureNotRetried ==
    /\ [][(SingleSend /\ pc = "write" /\ tx' # tx)
            => /\ pc' = "write"
               /\ tx = <<>>
               /\ \E ok \in BOOLEAN :
                    tx' = <<[packet |-> handle_write_command(wcmd)[1],
                             ok |-> ok]>>
               /\ wtodo' = <<>>
               /\ UNCHANGED <<control, state, index, published, wq, wcmd,
                              ingested, handled>>]_vars
    /\ []((SingleSend /\ tx # <<>>)
            => /\ Len(tx) = 1
               /\ wtodo = <<>>
               /\ ~ENABLED WriteStep
               /\ (pc = "write" => ENABLED WriteDone)
               /\ (pc = "check" => ENABLED Check)
               /\ (pc = "publish" => ENABLED Publish))
    /\ []((SingleSend /\ pc # "write") => Len(tx) = 1)
    /\ [](\A i, j \in 1..Len(handled) : handled[i] = handled[j] => i = j)
    /\ [][(SingleSend /\ pc = "publish" /\ pc' # pc /\ control.command # "Kill")
            => pc' = "select" /\ wq' = wq]_vars

\* the port rejected the one frame of an NMT command: the handling has
\* returned, the control check is done and the publish is next
C18_Witness ==
    /\ SingleSend
    /\ wcmd.type = "SendNmt"
    /\ pc = "publish"
    /\ Len(tx) = 1
    /\ ~tx[1].ok
    /\ state = DefaultState
    /\ index = 0

\* C19: when the publish finds the State channel closed, the loop ends in
\* that very iteration without storing a State, and from then on the driver
\* takes no frame, dequeues no command, appends nothing and publishes
\* nothing
C19_ClosedPublicationTerminates ==
    /\ []((pc = "publish" /\ ~state_rx_open)
            => ENABLED PublishPanic /\ ~ENABLED Publish)
    /\ [][(pc = "publish" /\ ~state_rx_open /\ pc' # pc)
            => /\ pc' = "panic"
               /\ UNCHANGED <<published, pubs, index, ingested, handled, rx, wq>>
               /\ state'.data = state.data]_vars
    /\ [][pc = "panic"
            => /\ UNCHANGED driverVars
               /\ Len(rx') >= Len(rx)
               /\ Len(wq') >= Len(wq)]_vars

\* the consumer went away, the publish of the next iteration failed; a frame
\* and a command that arrived since are left where they are
C19_Witness ==
    /\ pc = "panic"
    /\ ~state_rx_open
    /\ ctrl_tx_open
    /\ steps = <<"tick", "control", "info", "panic">>
    /\ rx # <<>>
    /\ wq # <<>>
    /\ published = DefaultState

\* C20: the driver task faults only on a closed State channel: the control
\* check never faults, whatever the state of the Control channel, its
\* sender dropped included; a transmit error leaves the handling going; a
\* receive error ingests nothing and the iteration reaches its publish
C20_OnlyClosedPublicationFaults ==
    /\ pc = "panic" => ~state_rx_open
    /\ pc = "check" => (ENABLED Check /\ ~ENABLED CheckPanic)
    /\ (pc = "write" /\ tx # <<>> /\ ~tx[Len(tx)].ok)
         => (ENABLED WriteStep \/ ENABLED WriteDone)
    /\ (pc = "publish" /\ steps # <<>> /\ steps[1] = "recv_err")
         => "ingest" \notin Range(steps)

\* a command of the panel as the driver assumes it: node ids of NMT, SDO and
\* the configuration macro in 0..127, Raw and PDO identifiers in 0..0x7FF with
\* at most 8 bytes, SDO data of at most 4 bytes
WellFormed(c) ==
    CASE c.type \in {"SendNmt", "ConfigureTpdo1Statusword"}
           -> c.node_id \in 0..127
      [] c.type = "SendSdoDownload"
           -> c.node_id \in 0..127 /\ Len(c.data) <= 4
      [] c.type \in {"SendRaw", "SendPdo"}
           -> c.cob_id \in 0..2047 /\ Len(c.data) <= 8
      [] OTHER -> TRUE

\* C21: every command the message sender panel has put into the write queue
\* is well-formed: node ids of NMT, SDO and the configuration macro within
\* 0..127, Raw and PDO identifiers within 0..0x7FF with at most 8 bytes, SDO
\* data of at most 4 bytes
C21_EnqueuedWellFormed == \A i \in 1..Len(wq) : WellFormed(wq[i])

\* the characters of s that are not whitespace
NonSpace(s) == SelectSeq(Chars(s), LAMBDA c : ~is_whitespace(c))

\* the byte written by the two hex digits hi and lo
HexPair(hi, lo) == 16 * DigitValue[hi] + DigitValue[lo]

\* C22: parse_hex_data ignores whitespace; when the remaining characters are
\* an even number of hex digits it returns the bytes of the consecutive
\* pairs in order, and when their number is odd or a pair is not two hex
\* digits it returns an error
C22_ParseHexData ==
    ret.op = "parse_hex_data" =>
        LET t == NonSpace(ret.arg)
        IN  IF Len(t) % 2 = 0 /\ \A i \in 1..Len(t) : t[i] \in DOMAIN DigitValue
            THEN ret.val = Ok([k \in 1..(Len(t) \div 2) |->
                                  HexPair(t[2 * k - 1], t[2 * k])])
            ELSE ret.val = Err

\* C23: after two messages at t1 < t2 on a fresh engine the recorded gap is
\* exactly t2 - t1 in milliseconds, min_gap and max_gap are that gap, and
\* jitter() has no value while there are fewer than 2 gap samples
C23_FirstGapExact ==
    /\ Len(calls) = 2 /\ calls[1].t < calls[2].t =>
          /\ bus_stats.gap_history = <<F64FromNat(calls[2].t - calls[1].t)>>
          /\ bus_stats.min_gap = Some(F64FromNat(calls[2].t - calls[1].t))
          /\ bus_stats.max_gap = Some(F64FromNat(calls[2].t - calls[1].t))
    /\ bus_stats.gap_count < 2 => jitter(bus_stats) = None

\* the on_message calls made so far
Messages == SelectSeq(calls, LAMBDA c : c.op = "on_message")

\* C25: after each on_message(id, t) the rate window holds, in order, the
\* entry (timestamp, running total) of every message whose age t - timestamp
\* is at most 5 seconds, and of no other; the number of entries plays no part
C25_RateWindowByAge ==
    Messages # <<>> =>
        LET t    == Messages[Len(Messages)].t
            kept == {i \in 1..Len(Messages) : t - Messages[i].t <= 5000}
        IN  /\ Len(bus_stats.messages_history) = Cardinality(kept)
            /\ \A k \in 1..Len(bus_stats.messages_history) :
                 LET i == Len(Messages) - Cardinality(kept) + k
                 IN  /\ i \in kept
                     /\ bus_stats.messages_history[k] = <<Messages[i].t, i>>

\* a message has left the rate window while one exactly 5 seconds old stays
C25_Witness ==
    /\ Len(bus_stats.messages_history) >= 2
    /\ bus_stats.messages_history[1][2] > 1
    /\ bus_stats.last_message_time.v - bus_stats.messages_history[1][1] = 5000

\* the n most recent elements of q, in their order
MostRecent(q, n) == IF Len(q) > n THEN SubSeq(q, Len(q) - n + 1, Len(q)) ELSE q

\* the update_load calls made so far
LoadCalls == SelectSeq(calls, LAMBDA c : c.op = "update_load")

\* the loads passed to update_load so far
LoadsPassed == [i \in 1..Len(LoadCalls) |-> LoadCalls[i].v]

\* C24: the gap window never holds more than 1000 samples and the load
\* window never more than 100; a message that makes a gap leaves in the gap
\* window the 1000 most recent gaps in arrival order, and an update_load
\* leaves in the load window the 100 most recent loads passed, in arrival
\* order
C24_WindowsKeepMostRecent ==
    [][/\ Len(bus_stats'.gap_history) <= 1000
       /\ Len(bus_stats'.load_samples) <= 100
       /\ LoadCount' # LoadCount =>
             bus_stats'.load_samples = MostRecent(LoadsPassed', 100)
       /\ (bus_stats'.total_messages # bus_stats.total_messages
           /\ bus_stats.last_message_time.some) =>
             bus_stats'.gap_history =
                 MostRecent(Append(bus_stats.gap_history,
                                   GapMs(bus_stats'.last_message_time.v,
                                         bus_stats.last_message_time.v)),
                            1000)]_vars

\* more than 1000 gaps and more than 100 loads have been recorded
C24_Witness ==
    /\ bus_stats.gap_count > 1000 /\ Len(bus_stats.gap_history) = 1000
    /\ Len(LoadsPassed) > 100 /\ Len(bus_stats.load_samples) = 100

\* the largest element of a non-empty sequence of numbers
MaxOf(q) == CHOOSE v \in Range(q) : \A w \in Range(q) : w <= v

\* C29: after update_load(v) the current load is v, the peak load is the
\* largest value ever passed, and the average load is the mean of the 100
\* most recent values passed (of all of them while they are fewer)
C29_LoadCurrentPeakMean ==
    (calls # <<>> /\ calls[Len(calls)].op = "update_load") =>
        /\ bus_stats.current_load = LoadsPassed[Len(LoadsPassed)]
        /\ bus_stats.peak_load = MaxOf(LoadsPassed)
        /\ bus_stats.avg_load =
               F64DivNat(SumSeq(MostRecent(LoadsPassed, 100)),
                         Len(MostRecent(LoadsPassed, 100)))

\* more than 100 loads have been passed, the last one is not the largest,
\* and the mean of all of them is not the mean of the last 100
C29_Witness ==
    /\ calls # <<>> /\ calls[Len(calls)].op = "update_load"
    /\ Len(LoadsPassed) > 100
    /\ bus_stats.current_load < bus_stats.peak_load
    /\ SumSeq(LoadsPassed) * 100
         # SumSeq(MostRecent(LoadsPassed, 100)) * Len(LoadsPassed)

\* the rate over the ends of the window h
RateOverWindow(h) == Rate(h[Len(h)][2] - h[1][2], h[Len(h)][1] - h[1][1])

\* the window of six messages one second apart
SixSeconds == [i \in 1..6 |-> <<1000 * (i - 1), i>>]

\* C26 as stated: calculate_msg_rate sets the current rate to 0 when the
\* window has fewer than 2 entries and otherwise to (last count - first
\* count) / (last timestamp - first timestamp)
C26_RateFormula ==
    ret.op = "calculate_msg_rate" =>
        ret.val = IF Len(ret.arg.history) < 2 THEN RateZero
                  ELSE RateOverWindow(ret.arg.history)

\* C26: calculate_msg_rate sets the current rate to 0 when the window has
\* fewer than 2 entries, to (last count - first count) / (last timestamp -
\* first timestamp) when the two ends of the window differ in time, and
\* leaves it as it was when they do not; messages at 0, 1, 2, 3, 4, 5
\* seconds with counts 1..6 give 5 / 5 = 1.0 per second
C26_RateOverSpan ==
    ret.op = "calculate_msg_rate" =>
        LET h == ret.arg.history
        IN  /\ ret.val = IF Len(h) < 2 THEN RateZero
                         ELSE IF h[Len(h)][1] = h[1][1] THEN ret.arg.rate
                         ELSE RateOverWindow(h)
            /\ h = SixSeconds => ret.val.n * 1000 = 1 * ret.val.ms

\* the rate has been computed over six messages one second apart
C26_Witness ==
    /\ ret.op = "calculate_msg_rate"
    /\ ret.arg.history = SixSeconds
    /\ ret.val = Rate(5, 5000)

\* the number of on_message calls made for the identifier id
CountOf(id) == Cardinality({i \in 1..Len(Messages) : Messages[i].cob_id = id})

\* C27: the rate table has entries only for identifiers passed to on_message,
\* and an entry is created or updated only by calculate_cob_id_rates(now)
\* with now more than 1 second after the start of the engine, its value being
\* the count of the identifier divided by the time since the start
C27_RatesAfterOneSecond ==
    [][/\ DOMAIN bus_stats'.cob_id_rates \subseteq
              {Messages'[i].cob_id : i \in 1..Len(Messages')}
       /\ \A id \in DOMAIN bus_stats'.cob_id_rates :
            (\/ id \notin DOMAIN bus_stats.cob_id_rates
             \/ bus_stats'.cob_id_rates[id] # bus_stats.cob_id_rates[id]) =>
                /\ clock > 1000
                /\ bus_stats' = [bus_stats EXCEPT
                                   !.cob_id_rates = bus_stats'.cob_id_rates]
                /\ bus_stats'.cob_id_rates[id] = Rate(CountOf(id), clock)]_vars

\* rates have been set 1001 ms after the start, later than a message of an
\* identifier that has no rate yet
C27_Witness ==
    /\ \E id \in DOMAIN bus_stats.cob_id_rates :
         bus_stats.cob_id_rates[id].ms = 1001
    /\ DOMAIN bus_stats.cob_id_rates # DOMAIN bus_stats.cob_id_counts

\* v is what get_top_cob_ids(n) may return for the rate table
TopOf(v, n, table) ==
    /\ Len(v) = IF n < Cardinality(DOMAIN table) THEN n
                ELSE Cardinality(DOMAIN table)
    /\ \A i \in 1..Len(v) :
         v[i][1] \in DOMAIN table /\ v[i][2] = table[v[i][1]]
    /\ \A i, j \in 1..Len(v) : i # j => v[i][1] # v[j][1]
    /\ \A i, j \in 1..Len(v) : i < j => ~RateLess(v[i][2], v[j][2])
    /\ \A id \in DOMAIN table \ {v[i][1] : i \in 1..Len(v)} :
         \A i \in 1..Len(v) : ~RateLess(v[i][2], table[id])

\* C28: get_top_cob_ids(n) returns min(n, size of the rate table) entries of
\* the table, no identifier twice, by falling rate, every entry left out
\* having a rate not above any returned, and leaves the engine as it was
C28_TopCobIds ==
    [][ret' # ret /\ ret'.op = "get_top_cob_ids" =>
          /\ bus_stats' = bus_stats
          /\ TopOf(ret'.val, ret'.arg, bus_stats.cob_id_rates)]_vars

\* one entry has been returned of a table of two with different rates
C28_Witness ==
    /\ ret.op = "get_top_cob_ids"
    /\ Len(ret.val) = 1
    /\ \E id \in DOMAIN bus_stats.cob_id_rates :
         RateLess(bus_stats.cob_id_rates[id], ret.val[1][2])

\* C30: every frame of an SDO expedited download has n = 4 - len(data) in
\* 0..3, so that its command byte is one of 0x23, 0x27, 0x2B, 0x2F, and a
\* download of no data hands no frame to the transmitter
C30_SdoCommandByte ==
    Handled({"SendSdoDownload"}) =>
        /\ \A i \in 1..Len(tx) : tx[i].packet.data[1] \in {35, 39, 43, 47}
        /\ Len(wcmd.data) = 0 => Len(tx) = 0

\* C31: on a silent bus with a fair tick, a Control value waiting on the
\* control channel of a running loop is adopted (the value sent last, when it
\* was replaced meanwhile) and a State is published after the adoption,
\* unless the loop ends first; a Kill waiting on the channel, if it is not
\* replaced before it is observed, ends the loop
C31_SilenceLiveness ==
    /\ (ctrl_changed /\ pc # "done" /\ control.command # "Kill")
          ~> \/ ~ctrl_changed /\ control = last_sent /\ pc = "select"
             \/ pc = "done"
    /\ (ctrl_changed /\ ctrl_chan.command = "Kill")
          ~> (pc = "done" \/ ctrl_chan.command # "Kill")

\* the loop has ended in an iteration won by the tick, which adopted the Kill
\* sent after a Stop had been adopted and published
C31_Witness ==
    /\ pc = "done"
    /\ steps = <<"tick", "adopt", "control", "info", "publish">>
    /\ published.exit_signal
    /\ control = last_sent
    /\ events >= 2

\* C32: the connection descriptor of the port changes only in a step of the
\* control check of an iteration that observed a new Control, taken while
\* nobody else holds its mutex, and it then equals the connection of the
\* adopted Control; every other iteration, the one of the shutdown signal
\* included, leaves it as it was
C32_ConnectionUnderLock ==
    /\ [][co_connection' # co_connection
            => /\ DriverStepFrom("check") \/ DriverStepFrom("lock")
               /\ "adopt" \in Range(steps')
               /\ co_lock = "none"
               /\ pc' = "publish"]_vars
    /\ [][pc' = "publish" /\ pc # "publish"
            => IF "adopt" \in Range(steps')
               THEN co_connection' = control'.connection
               ELSE co_connection' = co_connection]_vars

\* an iteration won by the tick has adopted a Control and written its
\* connection to the port, and a Control on the other connection is waiting
C32_Witness ==
    /\ pc = "publish"
    /\ steps = <<"tick", "adopt", "control", "info">>
    /\ co_connection = control.connection
    /\ co_connection # ctrl_chan.connection
    /\ ctrl_changed

\* the sum of the counts of a map of counts, none above k
CountSum(m, k) ==
    Cardinality({p \in (DOMAIN m) \X (1..k) : p[2] <= m[p[1]]})

\* C33: after k calls of on_message the total is k, the counts of the
\* identifiers sum to k, the count map and the last-seen map have the same
\* keys, and k - 1 gaps have been counted (none when k = 0)
C33_Counts ==
    LET k == Len(Messages)
    IN  /\ bus_stats.total_messages = k
        /\ CountSum(bus_stats.cob_id_counts, k) = k
        /\ DOMAIN bus_stats.cob_id_counts = DOMAIN bus_stats.cob_id_last_seen
        /\ bus_stats.gap_count = IF k = 0 THEN 0 ELSE k - 1

\* three messages of two identifiers have been counted
C33_Witness ==
    /\ Len(Messages) = 3
    /\ bus_stats.cob_id_counts = (384 :> 2) @@ (385 :> 1)
    /\ bus_stats.gap_count = 2

\* x <= y for doubles
F64Leq(x, y) == ~F64Less(y, x)

\* C34: avg_gap() has no value before the second message; from then on it
\* lies between min_gap and max_gap, it is 20 for the gaps 10, 20, 30 ms, and
\* it is taken over all the gaps counted, of which the gap window holds the
\* last 1000 only
C34_AvgGap ==
    LET avg == avg_gap(bus_stats)
    IN  /\ avg.some <=> bus_stats.total_messages >= 2
        /\ avg.some =>
             /\ F64Leq(bus_stats.min_gap.v, avg.v)
             /\ F64Leq(avg.v, bus_stats.max_gap.v)
             /\ bus_stats.gap_count = bus_stats.total_messages - 1
             /\ Len(bus_stats.gap_history) =
                  IF bus_stats.gap_count > GapHistoryCap THEN GapHistoryCap
                  ELSE bus_stats.gap_count
        /\ bus_stats.gap_history
             = <<F64FromNat(10), F64FromNat(20), F64FromNat(30)>>
           => avg = Some(F64FromNat(20))

\* the handling of the configuration macro is in progress
MacroRunning == pc = "write" /\ wcmd.type = "ConfigureTpdo1Statusword"

\* C35: while the configuration macro is handled the driver does nothing but
\* its transmit attempts: no frame leaves the port's queue or enters the log,
\* no State is published, the active Control stays what it was although a
\* Kill is waiting, and the handling returns to the loop only when all eight
\* attempts were made
C35_MacroRunsAlone ==
    /\ [][MacroRunning
            => /\ UNCHANGED <<control, state, index, ingested, published, pubs,
                              co_connection, wcmd, handled>>
               /\ Len(rx') >= Len(rx)
               /\ ctrl_changed => ctrl_changed'
               /\ \/ pc' = "write"
                  \/ pc' = "check" /\ wtodo = <<>> /\ Len(tx) = 8]_vars
    /\ []((MacroRunning /\ wtodo # <<>>) => ENABLED WriteStep)
    /\ []((MacroRunning /\ wtodo = <<>>) => Len(tx) = 8 /\ ENABLED WriteDone)

\* the handling has returned after its eight attempts; a frame is still
\* pending and a Kill still waiting, and the active command is still Process
C35_Witness ==
    /\ wcmd.type = "ConfigureTpdo1Statusword"
    /\ pc = "check"
    /\ Len(tx) = 8
    /\ rx # <<>>
    /\ ctrl_changed /\ ctrl_chan.command = "Kill"
    /\ control.command = "Process"
    /\ events = 3

\* q is p with frames added at its end
Extends(q, p) == Len(q) >= Len(p) /\ SubSeq(q, 1, Len(p)) = p

\* the step belongs to an iteration whose race was won by the tick or by a
\* write command
QuietIterationStep ==
    \/ pc = "select" /\ pc' # "select" /\ steps'[1] \in {"tick", "write"}
    \/ InIteration /\ steps[1] \in {"tick", "write"}

Consecutive(data) ==
    \A i \in 1..(Len(data) - 1) : data[i + 1].index = data[i].index + 1

\* C37: the sequence index is 0 at the start and grows by 1 exactly when a
\* frame is appended to the log, which takes the index as it was; the
\* indices of the log are consecutive and the newest is the number of frames
\* ever appended minus 1, whatever Stop and Process transitions, receive
\* errors and write commands came in between
C37_ConsecutiveIndices ==
    /\ [](index = Len(ingested))
    /\ [](Consecutive(state.data) /\ Consecutive(published.data))
    /\ [](state.data # <<>>
            => state.data[Len(state.data)].index = Len(ingested) - 1)
    /\ [][index' # index \/ state'.data # state.data
            => /\ index' = index + 1
               /\ DriverStepFrom("check") /\ rcv.kind = "Ok"
               /\ state'.data # <<>>
               /\ state'.data[Len(state'.data)] = MessageCached(index, rcv.frame)]_vars

\* the first frame was received under Stop and not logged, a write command
\* was handled, and the second frame, received under Process, has index 0
C37_Witness ==
    /\ ingested = <<2>>
    /\ state.data = <<MessageCached(0, 2)>>
    /\ index = 1
    /\ handled # <<>>
    /\ control.command = "Process"

\* C38: the State published by a publish has exit_signal = TRUE exactly when
\* the active command is Kill at that publish; such a publish is the last of
\* the run, so at most one State with the flag is ever published and every
\* State published before it has the flag down
C38_ExitSignalOnce ==
    /\ [][DriverStepFrom("publish")
            => /\ published'.exit_signal <=> control.command = "Kill"
               /\ published'.exit_signal <=> pc' = "done"
               /\ ~published.exit_signal]_vars
    /\ [][published' # published => DriverStepFrom("publish")]_vars
    /\ [](published.exit_signal <=> pc = "done")
    /\ [][pc = "done" => published' = published /\ pubs' = pubs]_vars

\* the Kill was adopted in an iteration won by a write command; the State
\* published last carries the flag and the one frame logged before
C38_Witness ==
    /\ pc = "done"
    /\ published.exit_signal
    /\ steps = <<"write", "tx", "adopt", "control", "info", "publish">>
    /\ Len(published.data) = 1

\* C39: however the publishes of the driver and the reads of the consumer
\* interleave, a frame of the log is passed to on_message once at most, also
\* when the global filter rejects it and when the consumer's list is empty:
\* the total of the statistics never exceeds the number of frames logged
C39_CountedOnce == gui.total <= Len(ingested)

====
